---- MODULE Spec2Model ----
(***************************************************************************)
(* The staged export server of figma-export (the Bun WebSocket server in   *)
(* src/src/utils/logger.ts, lines 583-2526): its session state, the        *)
(* message handler, the timer callbacks that drive the stages, and the     *)
(* artifact files under export/.                                           *)
(*                                                                         *)
(* Time is counted in ticks of 1000 ms.  A setTimeout(f, d) is a pending   *)
(* timer with d \div 1000 ticks left; timers fire in order of due time and,*)
(* at equal due time, in order of creation.  Inbound messages arrive at    *)
(* any moment.  The remote plugin is the environment: it answers the       *)
(* requests that are outstanding, in any order, before the next second has *)
(* passed.  Anything else the environment does is an incident: a request   *)
(* that is never answered, a message nobody asked for, an answer without   *)
(* result or in another envelope, a write to disk that fails, a further    *)
(* join.  SessionSpec allows none of them; Spec allows MaxIncidents        *)
(* incidents of the plugin; JoinSpec allows MaxIncidents further joins,    *)
(* with a plugin that answers the same document every time.                *)
(*                                                                         *)
(* Not modelled: console output and the log files under export/logs, the   *)
(* extraction of image bytes (a 100 ms timer that touches only image       *)
(* files), and the savedFiles list (written, never read by a decision).    *)
(***************************************************************************)
EXTENDS Integers, Sequences, FiniteSets, TLC

(***************************************************************************)
(* Bounds of the model.                                                    *)
(***************************************************************************)
MaxIncidents == 1
MaxResponses == 14

(***************************************************************************)
(* Program constants.                                                      *)
(***************************************************************************)
batchSize == 4
stage3Total == 4
stage5Total == 6
TickMs == 1000

(***************************************************************************)
(* JSON values.  Every value carries its type in t: "undef" is undefined   *)
(* (an absent result), "arr" an array, "idx" an object whose keys are all  *)
(* numeric, "obj" any other object.  An object holds only the fields it    *)
(* has; Has(v, f) is the test `v.f` of the source for a field that is      *)
(* truthy whenever present.                                                *)
(***************************************************************************)
Undefined == [t |-> "undef"]
Arr(items) == [t |-> "arr", items |-> items]
Idx(items) == [t |-> "idx", items |-> items]
Node(id, ch) == [t |-> "obj", id |-> id, children |-> ch]
Leaf(id) == [t |-> "obj", id |-> id]
Item(doc) == [t |-> "obj", document |-> doc]
Plain == [t |-> "obj"]
Selection(nodes) == [t |-> "obj", selection |-> Arr(nodes)]

Truthy(v) == v.t # "undef"
IsObject(v) == v.t \in {"arr", "idx", "obj"}
IsArray(v) == v.t = "arr"
Has(v, f) == v.t = "obj" /\ f \in DOMAIN v

\* Identifiers with a ';' in them or starting with 'I' (instance identifiers).
InstanceIds == {"I5:1;1:2"}
IncludesSemicolon(id) == id \in InstanceIds
StartsWithI(id) == id \in InstanceIds

Range(s) == {s[i] : i \in DOMAIN s}

RECURSIVE Concat(_)
Concat(ss) == IF ss = <<>> THEN <<>> ELSE Head(ss) \o Concat(Tail(ss))

RECURSIVE Dedupe(_)
\* A JavaScript Set keeps the first insertion of each element, in order.
Dedupe(s) ==
  IF s = <<>> THEN <<>>
  ELSE LET r == Dedupe(SubSeq(s, 1, Len(s) - 1))
       IN IF s[Len(s)] \in Range(r) THEN r ELSE Append(r, s[Len(s)])

(***************************************************************************)
(* extractNodeIds: DFS over id / children, collected in a Set.             *)
(***************************************************************************)
RECURSIVE extractNodeIdsSeq(_)
extractNodeIdsSeq(node) ==
  IF ~Truthy(node) THEN <<>>
  ELSE (IF Has(node, "id") THEN <<node.id>> ELSE <<>>)
       \o (IF Has(node, "children")
           THEN Concat([i \in DOMAIN node.children |->
                          extractNodeIdsSeq(node.children[i])])
           ELSE <<>>)

\* extractNodeIds, had it collected the identifiers in an array
extractNodeIdsInArray(node, ids) == ids \o extractNodeIdsSeq(node)

extractNodeIds(node, ids) == Dedupe(ids \o extractNodeIdsSeq(node))

(***************************************************************************)
(* extractNodeIdsFromStructure: the inner traverse pushes every id that is *)
(* no instance id; the outer function sniffs the shape of the structure.   *)
(***************************************************************************)
RECURSIVE traverse(_)
traverse(node) ==
  IF ~Truthy(node) THEN <<>>
  ELSE (IF Has(node, "id") /\ ~IncludesSemicolon(node.id) /\ ~StartsWithI(node.id)
        THEN <<node.id>> ELSE <<>>)
       \o (IF Has(node, "children")
           THEN Concat([i \in DOMAIN node.children |-> traverse(node.children[i])])
           ELSE <<>>)

extractItem(item) ==
  IF Has(item, "document") THEN traverse(item.document)
  ELSE IF Has(item, "nodeId") THEN <<item.nodeId>>
  ELSE IF Has(item, "id") THEN traverse(item)
  ELSE <<>>

extractNodeIdsFromStructure(structure) ==
  IF ~IsObject(structure) THEN <<>>
  ELSE IF structure.t \in {"arr", "idx"}
       THEN Concat([i \in DOMAIN structure.items |-> extractItem(structure.items[i])])
       ELSE traverse(structure)

(***************************************************************************)
(* The values the plugin can return.                                       *)
(***************************************************************************)
EmptyArray == Arr(<<>>)
PageTree == Node("0:1", <<Leaf("1:2")>>)
BigTree ==
  Node("0:1", <<Leaf("1:2"), Leaf("1:3"), Node("1:4", <<Leaf("1:5")>>),
                Leaf("I5:1;1:2")>>)
\* read_my_design answered with an object with numeric keys
IndexedDoc == Idx(<<Item(Leaf("1:2"))>>)
StructureResults == {EmptyArray, PageTree, BigTree, IndexedDoc}

\* get_nodes_info answered with an array of {document} items, or with one
\* node object that has children the structure did not show.
ArrayBatch == Arr(<<Item(Node("1:2", <<Leaf("2:1")>>))>>)
DeepBatch ==
  Node("7:1", <<Leaf("7:2"), Leaf("7:3"), Leaf("7:4"), Leaf("7:5")>>)
BatchResults == {ArrayBatch, DeepBatch}

NoFrames == Selection(<<>>)
TwoFrames == Selection(<<Leaf("1:2"), Leaf("1:3")>>)
SelectionResults == {NoFrames, TwoFrames}

Colors == [t |-> "obj", colors |-> Plain]

(***************************************************************************)
(* Message identifiers, as the words between the '-' of the identifier     *)
(* (the trailing timestamp left out).  startsWith and includes are         *)
(* computed on the words.                                                  *)
(***************************************************************************)
IdStructure == <<"stage2", "structure">>
IdStyles == <<"stage3", "styles">>
IdComponents == <<"stage3", "components">>
IdDocinfo == <<"stage3", "docinfo">>
IdAnnotations == <<"stage3", "annotations">>
IdNodes == <<"stage4", "nodes">>
IdSelection == <<"stage5", "selection">>
IdImage == <<"stage5", "image", "export">>
\* Identifiers no request of the server carries.
IdStage5Text == <<"stage5", "text">>
IdBareSelection == <<"selection">>
IdUnknown == <<"other">>

RequestIds ==
  {IdStructure, IdStyles, IdComponents, IdDocinfo, IdAnnotations, IdNodes,
   IdSelection, IdImage}
\* The messages nobody asked for
UnsolicitedIds == {IdStyles, IdNodes, IdStage5Text, IdBareSelection, IdUnknown}

StartsWith(id, w) == Len(id) >= 1 /\ id[1] = w
Includes(id, ws) ==
  \E i \in 1..Len(id) :
     /\ i + Len(ws) - 1 <= Len(id)
     /\ SubSeq(id, i, i + Len(ws) - 1) = ws

\* The results a well-formed response to a request can carry.
ResultsFor(id) ==
  IF id = IdStructure THEN StructureResults
  ELSE IF id = IdNodes THEN BatchResults
  ELSE IF id \in {IdSelection, IdBareSelection} THEN SelectionResults
  ELSE IF id = IdStyles THEN {Colors}
  ELSE {Plain}

\* The envelopes: {type:'message', message:{id, result}},
\* {type:'response', id, result} and {type:'execute-command', ...}.
Forms == {"message", "response", "execute-command"}

WS == {1, 2}
NoConn == 0

(***************************************************************************)
(* State.                                                                  *)
(***************************************************************************)
VARIABLES
  conn,               \* per socket: "new", "open" or "closed"
  wsData,             \* per socket: ws.data is "none", has a "channel", or "nochannel"
  currentConnection,  \* the socket of the accepted join, or NoConn
  isExporting,
  documentStructure,
  documentNodeIds,
  selectedNodeIds,
  processedNodes,
  nodeQueue,
  stage3Completed,
  stage4Completed,
  stage4Total,
  stage5Completed,
  stage6Started,
  files,              \* the artifact files under export/
  timers,             \* pending setTimeout callbacks, by due time
  exited,             \* process.exit(1) was called, or an exception escaped a timer
  wire,               \* per socket, the requests the plugin has not answered yet
  joins,              \* joins handled so far
  answered,           \* requests answered so far (bounded by MaxResponses)
  incidents,          \* incidents so far (bounded by MaxIncidents)
  obs,                \* observations of the run, read by the properties only
  input,              \* the argument of a function that is run on its own
  output              \* and what the function has made of it

server ==
  <<conn, wsData, currentConnection, isExporting, documentStructure,
    documentNodeIds, selectedNodeIds, processedNodes, nodeQueue,
    stage3Completed, stage4Completed, stage4Total, stage5Completed,
    stage6Started, files, timers, exited, wire, joins, answered, incidents, obs>>

vars == <<server, input, output>>

NoFile == [t |-> "nofile"]
FileNames ==
  {"structure/document_structure.json", "styles/colors.json",
   "components/local_components.json", "metadata/document_info.json",
   "annotations/all_annotations.json", "nodes/text_nodes.json",
   "metadata.json", "specialized.json", "unknown.json",
   "batch_processing_summary.json"}
\* single: the files with a fixed name, and for each data type saved under
\* <type>_<timestamp>.json the file written last; batches, images: the
\* files of export/batches and export/images in directory order.
EmptyFolder ==
  [single |-> [f \in FileNames |-> NoFile], batches |-> <<>>, images |-> <<>>]

NoWire == [id \in RequestIds |-> 0]

(***************************************************************************)
(* The handlers are sequential code; each is written as a function from    *)
(* the state before it to the state after it, on a record St of the        *)
(* variables, so that a handler that calls another is their composition.   *)
(***************************************************************************)
St ==
  [conn |-> conn, wsData |-> wsData, currentConnection |-> currentConnection,
   isExporting |-> isExporting, documentStructure |-> documentStructure,
   documentNodeIds |-> documentNodeIds, selectedNodeIds |-> selectedNodeIds,
   processedNodes |-> processedNodes, nodeQueue |-> nodeQueue,
   stage3Completed |-> stage3Completed, stage4Completed |-> stage4Completed,
   stage4Total |-> stage4Total, stage5Completed |-> stage5Completed,
   stage6Started |-> stage6Started, files |-> files, timers |-> timers,
   exited |-> exited, wire |-> wire, joins |-> joins, answered |-> answered,
   incidents |-> incidents,
   obs |-> obs]

Becomes(st) ==
  /\ conn' = st.conn
  /\ wsData' = st.wsData
  /\ currentConnection' = st.currentConnection
  /\ isExporting' = st.isExporting
  /\ documentStructure' = st.documentStructure
  /\ documentNodeIds' = st.documentNodeIds
  /\ selectedNodeIds' = st.selectedNodeIds
  /\ processedNodes' = st.processedNodes
  /\ nodeQueue' = st.nodeQueue
  /\ stage3Completed' = st.stage3Completed
  /\ stage4Completed' = st.stage4Completed
  /\ stage4Total' = st.stage4Total
  /\ stage5Completed' = st.stage5Completed
  /\ stage6Started' = st.stage6Started
  /\ files' = st.files
  /\ timers' = st.timers
  /\ exited' = st.exited
  /\ wire' = st.wire
  /\ joins' = st.joins
  /\ answered' = st.answered
  /\ incidents' = st.incidents
  /\ obs' = st.obs
  /\ UNCHANGED <<input, output>>

\* open: a join was accepted and the final reset of its session has not run;
\* entered, twice: the stages entered, and entered more than once, since the
\* join; sentBatches: the nodeIds of the get_nodes_info requests since the
\* join; wrote: the handler of the last message wrote a payload.
NoObs ==
  [open |-> FALSE, entered |-> {}, twice |-> {}, sentBatches |-> <<>>,
   wrote |-> FALSE]

\* the server before the first connection
Idle ==
  /\ conn = [w \in WS |-> "new"]
  /\ wsData = [w \in WS |-> "none"]
  /\ currentConnection = NoConn
  /\ isExporting = FALSE
  /\ documentStructure = Undefined
  /\ documentNodeIds = <<>>
  /\ selectedNodeIds = <<>>
  /\ processedNodes = {}
  /\ nodeQueue = <<>>
  /\ stage3Completed = 0
  /\ stage4Completed = 0
  /\ stage4Total = 0
  /\ stage5Completed = 0
  /\ stage6Started = FALSE
  /\ files = EmptyFolder
  /\ timers = <<>>
  /\ exited = FALSE
  /\ wire = [w \in WS |-> NoWire]
  /\ joins = 0
  /\ answered = 0
  /\ incidents = 0
  /\ obs = NoObs

Init ==
  /\ Idle
  /\ input = Undefined
  /\ output = Undefined

(***************************************************************************)
(* Timers.  The list is kept in firing order: by ticks left, and among     *)
(* equal ticks by creation.                                                *)
(***************************************************************************)
Delay(ms) == ms \div TickMs

Timer(ms, cb) ==
  [rem |-> Delay(ms), cb |-> cb, ws |-> NoConn, id |-> <<>>, ids |-> <<>>,
   last |-> FALSE]

Insert(ts, t) ==
  LET n == Cardinality({i \in DOMAIN ts : ts[i].rem <= t.rem})
  IN SubSeq(ts, 1, n) \o <<t>> \o SubSeq(ts, n + 1, Len(ts))

setTimeout(st, t) == [st EXCEPT !.timers = Insert(@, t)]

\* ws.send: a message given to a socket that is not open goes nowhere.
send(st, ws, id) ==
  IF ws # NoConn /\ st.conn[ws] = "open"
  THEN [st EXCEPT !.wire[ws][id] = @ + 1]
  ELSE st

exit(st) == [st EXCEPT !.exited = TRUE]

Enter(st, stage) ==
  [st EXCEPT !.obs.entered = @ \cup {stage},
             !.obs.twice = @ \cup ({stage} \cap st.obs.entered)]

(***************************************************************************)
(* Saving.  diskOk = FALSE is a write that throws.                         *)
(***************************************************************************)
Written(st) == [st EXCEPT !.obs.wrote = TRUE]

\* safeLogWithSizeLimit with a filePath: writes when there is data, and
\* swallows the exception of a write that fails.
safeLogWithSizeLimit(st, name, data, diskOk) ==
  IF data = Undefined \/ ~diskOk THEN st
  ELSE Written([st EXCEPT !.files.single[name] = data])

\* batch_<data.id>.json, or batch_<timestamp>.json for data without id.
\* The directory lists the timestamp names before the id names.
saveBatchFile(st, data, diskOk) ==
  IF data = Undefined \/ ~diskOk THEN st
  ELSE LET bs == st.files.batches
           name == IF Has(data, "id") THEN data.id ELSE "timestamp"
           entry == [name |-> name, data |-> data]
           n == Cardinality({i \in DOMAIN bs : bs[i].name = "timestamp"})
       IN Written(
            IF name # "timestamp" /\ \E i \in DOMAIN bs : bs[i].name = name
            THEN [st EXCEPT !.files.batches =
                    [i \in DOMAIN bs |-> IF bs[i].name = name THEN entry ELSE bs[i]]]
            ELSE [st EXCEPT !.files.batches =
                    SubSeq(bs, 1, n) \o <<entry>> \o SubSeq(bs, n + 1, Len(bs))])

saveImageFile(st, data, diskOk) ==
  IF data = Undefined \/ ~diskOk THEN st
  ELSE Written([st EXCEPT !.files.images = Append(@, data)])

saveDataImmediately(st, dataType, data, diskOk) ==
  CASE dataType = "documentStructure" ->
         safeLogWithSizeLimit(st, "structure/document_structure.json", data, diskOk)
    [] dataType = "styles" ->
         \* data.colors of undefined throws, and so does a failing write:
         \* the catch of saveDataImmediately exits
         IF data = Undefined THEN exit(st)
         ELSE IF Has(data, "colors")
              THEN IF diskOk
                   THEN Written([st EXCEPT !.files.single["styles/colors.json"] =
                                   data.colors])
                   ELSE exit(st)
              ELSE st
    [] dataType = "components" ->
         safeLogWithSizeLimit(st, "components/local_components.json", data, diskOk)
    [] dataType = "documentInfo" ->
         safeLogWithSizeLimit(st, "metadata/document_info.json", data, diskOk)
    [] dataType = "textNodes" ->
         safeLogWithSizeLimit(st, "nodes/text_nodes.json", data, diskOk)
    [] dataType = "batch" -> saveBatchFile(st, data, diskOk)
    [] dataType = "images" -> saveImageFile(st, data, diskOk)
    [] OTHER -> safeLogWithSizeLimit(st, dataType \o ".json", data, diskOk)

\* fileUtils.saveRawDataImmediately: no try/catch of its own; undefined
\* data makes writeFileSync throw, which the message handler turns into exit.
saveRawDataImmediately(st, name, rawData, diskOk) ==
  IF rawData = Undefined \/ ~diskOk THEN exit(st)
  ELSE Written([st EXCEPT !.files.single[name] = rawData])

(***************************************************************************)
(* The stages.                                                             *)
(***************************************************************************)
Min(a, b) == IF a <= b THEN a ELSE b
Ceil(n, d) == (n + d - 1) \div d

resetExportState(st) ==
  [st EXCEPT !.processedNodes = {}, !.nodeQueue = <<>>, !.isExporting = FALSE,
             !.documentStructure = Undefined, !.stage3Completed = 0,
             !.stage4Completed = 0, !.stage4Total = 0, !.stage5Completed = 0,
             !.stage6Started = FALSE]

clearExportFolder(st) == [st EXCEPT !.files = EmptyFolder]

finalStatistics(st) ==
  [t |-> "obj", totalProcessedNodes |-> Cardinality(st.processedNodes),
   nodeQueueLength |-> Len(st.nodeQueue)]

\* validateExportResult ends with isExporting = false.
validateExportResult(st) == [st EXCEPT !.isExporting = FALSE]

finishExport(st) ==
  LET s1 == saveDataImmediately(Enter(st, "finish"), "metadata",
                                finalStatistics(st), TRUE)
      s2 == validateExportResult(s1)
  IN setTimeout(setTimeout(s2, Timer(2000, "processBatchesAndOrganizeData")),
                Timer(3000, "resetExportState"))

processNodeBatch(st, nodeIds) ==
  send([st EXCEPT !.obs.sentBatches = Append(@, nodeIds)],
       st.currentConnection, IdNodes)

processNextBatch(st) ==
  IF st.nodeQueue = <<>>
  THEN setTimeout(st, Timer(1000, "startStage5SpecializedExport"))
  ELSE LET n == Min(batchSize, Len(st.nodeQueue))
           nextBatch == SubSeq(st.nodeQueue, 1, n)
       IN processNodeBatch(
            [st EXCEPT !.nodeQueue = SubSeq(@, n + 1, Len(@))], nextBatch)

startStage5SpecializedExport(st) ==
  setTimeout(setTimeout(Enter(st, "stage5"), Timer(1000, "getSelection")),
             Timer(2000, "exportImages"))

\* startStage4RecursiveProcessing, had it taken the number of identifiers for
\* the number of batches
startStage4CountsNodes(st) ==
  IF ~Truthy(st.documentStructure) THEN Enter(st, "stage4")
  ELSE LET ids == extractNodeIdsFromStructure(st.documentStructure)
           s1 == [Enter(st, "stage4") EXCEPT !.documentNodeIds = ids]
           newNodeIds == SelectSeq(ids, LAMBDA id : id \notin st.processedNodes)
       IN IF ids = <<>> THEN s1
          ELSE IF newNodeIds = <<>> THEN startStage5SpecializedExport(s1)
          ELSE processNextBatch(
                 [s1 EXCEPT !.stage4Total = Len(newNodeIds),
                            !.stage4Completed = 0,
                            !.nodeQueue = @ \o newNodeIds])

startStage4RecursiveProcessing(st) ==
  IF ~Truthy(st.documentStructure) THEN Enter(st, "stage4")
  ELSE LET ids == extractNodeIdsFromStructure(st.documentStructure)
           s1 == [Enter(st, "stage4") EXCEPT !.documentNodeIds = ids]
           newNodeIds == SelectSeq(ids, LAMBDA id : id \notin st.processedNodes)
       IN IF ids = <<>> THEN s1
          ELSE IF newNodeIds = <<>> THEN startStage5SpecializedExport(s1)
          ELSE processNextBatch(
                 [s1 EXCEPT !.stage4Total = Ceil(Len(newNodeIds), batchSize),
                            !.stage4Completed = 0,
                            !.nodeQueue = @ \o newNodeIds])

RECURSIVE batchFileIds(_)
batchFileIds(bs) ==
  IF bs = <<>> THEN <<>>
  ELSE extractNodeIds(bs[Len(bs)].data, batchFileIds(SubSeq(bs, 1, Len(bs) - 1)))

RECURSIVE stage6Timers(_, _, _)
\* the loop for (i = 0; i < ids.length; i += batchSize) setTimeout(.., i * 100)
stage6Timers(st, ids, i) ==
  IF i >= Len(ids) THEN st
  ELSE stage6Timers(
         setTimeout(st, [Timer(i * 100, "stage6Batch") EXCEPT
                           !.ids = SubSeq(ids, i + 1, Min(i + batchSize, Len(ids))),
                           !.last = (i + batchSize >= Len(ids))]),
         ids, i + batchSize)

startStage6RecursiveDeepening(st) ==
  LET s0 == Enter(st, "stage6")
      newNodeIds == batchFileIds(st.files.batches)
      filteredNewIds == SelectSeq(newNodeIds, LAMBDA id : id \notin st.processedNodes)
  IN IF st.files.batches = <<>> THEN finishExport(s0)
     ELSE IF filteredNewIds # <<>>
          THEN stage6Timers([s0 EXCEPT !.nodeQueue = @ \o filteredNewIds],
                            filteredNewIds, 0)
          ELSE finishExport(s0)

RECURSIVE imageTimers(_, _, _)
\* rootFrameIds.forEach((nodeId, index) => setTimeout(.., index * 1000))
imageTimers(st, n, index) ==
  IF index >= n THEN st
  ELSE imageTimers(
         setTimeout(st, [Timer(index * 1000, "exportImage") EXCEPT
                           !.last = (index = n - 1)]),
         n, index + 1)

getRootFrameIds(st) == st.selectedNodeIds

\* exportImages, had it returned without finishing when no frame is selected
exportImagesReturns(st) ==
  LET rootFrameIds == getRootFrameIds(st)
  IN IF rootFrameIds = <<>> THEN st
     ELSE imageTimers(st, Len(rootFrameIds), 0)

exportImages(st) ==
  LET rootFrameIds == getRootFrameIds(st)
  IN IF rootFrameIds = <<>> THEN finishExport(st)
     ELSE imageTimers(st, Len(rootFrameIds), 0)

RECURSIVE Sum(_)
Sum(ns) == IF ns = <<>> THEN 0 ELSE Head(ns) + Sum(Tail(ns))

RECURSIVE traverseNode(_)
\* the number of nodes traverseNode counts below (and including) node
traverseNode(node) ==
  IF ~Truthy(node) \/ ~Has(node, "id") THEN 0
  ELSE 1 + (IF Has(node, "children")
            THEN Sum([i \in DOMAIN node.children |-> traverseNode(node.children[i])])
            ELSE 0)

batchItemNodes(batchData) ==
  Sum([i \in DOMAIN batchData.items |->
         IF Has(batchData.items[i], "document")
         THEN traverseNode(batchData.items[i].document) ELSE 0])

\* `for (const item of batchData)` throws on a batch that is no array; the
\* catch of the function logs it, and nothing has been written by then.
processBatchesAndOrganizeData(st) ==
  LET bs == st.files.batches
  IN IF \E i \in DOMAIN bs : ~IsArray(bs[i].data) THEN st
     ELSE [st EXCEPT
             !.files.single["nodes/text_nodes.json"] = Arr(<<>>),
             !.files.single["batch_processing_summary.json"] =
                [t |-> "obj", totalBatches |-> Len(bs),
                 totalNodes |-> Sum([i \in DOMAIN bs |-> batchItemNodes(bs[i].data)])]]

(***************************************************************************)
(* websocket.message.  data = [form, id, result]: the envelope, the message*)
(* identifier and the result (Undefined when the message carries none).    *)
(***************************************************************************)
selectionIds(result) ==
  LET nodes == result.selection.items
  IN Concat([i \in DOMAIN nodes |->
               IF Has(nodes[i], "id") THEN <<nodes[i].id>> ELSE <<>>])

HasSelection(result) ==
  Has(result, "selection") /\ IsArray(result.selection)

\* lines 1979-2199: a {type:'message'} envelope with a result whose
\* identifier names the structure stores it and schedules the stage-3
\* requests on the socket it came from.
structureResponse(st, ws, data, diskOk) ==
  IF /\ data.form = "message"
     /\ Truthy(data.result)
     /\ (Includes(data.id, <<"structure">>) \/ Includes(data.id, <<"stage2">>))
  THEN IF ~IsObject(data.result) THEN exit(st)
       ELSE IF ~IsArray(data.result) /\ ~Has(data.result, "id") THEN exit(st)
       ELSE LET s1 == saveDataImmediately(
                        [st EXCEPT !.documentStructure = data.result],
                        "documentStructure", data.result, diskOk)
                req(ms, id) == [Timer(ms, "stage3Request") EXCEPT !.ws = ws, !.id = id]
            IN setTimeout(setTimeout(setTimeout(setTimeout(Enter(s1, "stage3"),
                 req(1000, IdStyles)), req(2000, IdComponents)),
                 req(3000, IdDocinfo)), req(4000, IdAnnotations))
  ELSE st

\* stage2Response, had it queued the identifiers as soon as they are extracted
stage2ResponseEnqueues(st, result, diskOk) ==
  IF ~Truthy(result) THEN st
  ELSE LET s1 == saveDataImmediately(st, "documentStructure", result, diskOk)
       IN [s1 EXCEPT !.documentStructure = result,
                     !.documentNodeIds = extractNodeIdsFromStructure(result),
                     !.nodeQueue = @ \o extractNodeIdsFromStructure(result)]

stage2Response(st, result, diskOk) ==
  IF ~Truthy(result) THEN st
  ELSE LET s1 == saveDataImmediately(st, "documentStructure", result, diskOk)
       IN [s1 EXCEPT !.documentStructure = result,
                     !.documentNodeIds = extractNodeIdsFromStructure(result)]

stage3Response(st, id, result, diskOk) ==
  LET s1 == IF Includes(id, <<"styles">>)
              THEN saveDataImmediately(st, "styles", result, diskOk)
            ELSE IF Includes(id, <<"components">>)
              THEN saveDataImmediately(st, "components", result, diskOk)
            ELSE IF Includes(id, <<"docinfo">>)
              THEN saveDataImmediately(st, "documentInfo", result, diskOk)
            ELSE IF Includes(id, <<"annotations">>)
              THEN saveRawDataImmediately(st, "annotations/all_annotations.json",
                                          result, diskOk)
            ELSE saveDataImmediately(st, "metadata", result, diskOk)
      s2 == [s1 EXCEPT !.stage3Completed = @ + 1]
  IN IF s1.exited THEN s1
     ELSE IF s2.stage3Completed >= stage3Total
          THEN setTimeout(s2, Timer(1000, "startStage4RecursiveProcessing"))
          ELSE s2

stage4Response(st, id, result, diskOk) ==
  LET s1 == IF Includes(id, <<"nodes">>)
            THEN setTimeout(
                   [saveDataImmediately(st, "batch", result, diskOk)
                      EXCEPT !.stage4Completed = @ + 1],
                   Timer(1000, "processNextBatch"))
            ELSE st
  IN IF s1.stage4Completed >= s1.stage4Total /\ s1.stage4Total > 0
     THEN setTimeout(s1, Timer(1000, "startStage5SpecializedExport"))
     ELSE IF s1.stage4Completed > 0 /\ s1.stage4Total = 0
          THEN setTimeout(s1, Timer(1000, "startStage5SpecializedExport"))
          ELSE s1

stage5Response(st, id, result, diskOk) ==
  LET s1 == IF Includes(id, <<"text">>)
              THEN saveDataImmediately(st, "textNodes", result, diskOk)
            ELSE IF Includes(id, <<"selection">>)
              THEN IF HasSelection(result)
                   THEN [st EXCEPT !.selectedNodeIds = selectionIds(result)]
                   ELSE st
            ELSE IF Includes(id, <<"image", "export">>)
              THEN saveDataImmediately(st, "images", result, diskOk)
            ELSE saveDataImmediately(st, "specialized", result, diskOk)
      s2 == [s1 EXCEPT !.stage5Completed = @ + 1]
  IN IF s2.stage5Completed >= stage5Total /\ ~s2.stage6Started
     THEN setTimeout([s2 EXCEPT !.stage6Started = TRUE],
                     Timer(1000, "startStage6RecursiveDeepening"))
     ELSE s2

otherResponse(st, id, result, diskOk) ==
  IF Includes(id, <<"selection">>)
  THEN setTimeout(
         IF HasSelection(result)
         THEN [st EXCEPT !.selectedNodeIds = selectionIds(result)]
         ELSE st,
         Timer(2000, "finishExport"))
  ELSE saveDataImmediately(st, "unknown", result, diskOk)

message(st, ws, data, diskOk) ==
  LET s0 == structureResponse([st EXCEPT !.obs.wrote = FALSE], ws, data, diskOk)
      s1 == [s0 EXCEPT !.obs.wrote = FALSE]
  IN IF s0.exited THEN s0
     ELSE IF s1.currentConnection = NoConn THEN s1
     ELSE IF data.form = "execute-command" THEN s1
     ELSE IF StartsWith(data.id, "stage2") THEN stage2Response(s1, data.result, diskOk)
     ELSE IF StartsWith(data.id, "stage3")
       THEN stage3Response(s1, data.id, data.result, diskOk)
     ELSE IF StartsWith(data.id, "stage4")
       THEN stage4Response(s1, data.id, data.result, diskOk)
     ELSE IF StartsWith(data.id, "stage5")
       THEN stage5Response(s1, data.id, data.result, diskOk)
     ELSE otherResponse(s1, data.id, data.result, diskOk)

\* the join message
join(st, ws) ==
  IF st.isExporting THEN st
  ELSE LET s1 == [st EXCEPT !.isExporting = TRUE, !.wsData[ws] = "channel",
                            !.currentConnection = ws]
           s2 == resetExportState(clearExportFolder(s1))
           s3 == [s2 EXCEPT !.obs = [NoObs EXCEPT !.open = TRUE,
                                                  !.entered = {"stage2"}]]
       IN send(s3, ws, IdStructure)

(***************************************************************************)
(* Actions: the socket events.                                             *)
(***************************************************************************)
\* websocket.open (handleConnection).  Sockets are interchangeable: the
\* one with the smaller number connects first.
Connect(ws) ==
  /\ ~exited
  /\ conn[ws] = "new"
  /\ \A w \in WS : w < ws => conn[w] # "new"
  /\ Becomes([St EXCEPT !.conn[ws] = "open"])

\* websocket.close: deletes ws.data.channel and nothing else.  The plugin
\* behind the socket answers no more.  Only the close of a socket that has
\* joined is modelled: for the others the handler does nothing.
close(st, ws) ==
  [st EXCEPT !.conn[ws] = "closed",
             !.wsData[ws] = IF @ = "channel" THEN "nochannel" ELSE @,
             !.wire[ws] = NoWire]

Close(ws) ==
  /\ ~exited
  /\ conn[ws] = "open"
  /\ wsData[ws] # "none"
  /\ Becomes(close(St, ws))

\* the first join message
Join(ws) ==
  /\ ~exited
  /\ conn[ws] = "open"
  /\ joins = 0
  /\ Becomes(join([St EXCEPT !.joins = @ + 1], ws))

\* The plugin answers a request that is outstanding on its socket.
Response(ws, id, result) ==
  /\ ~exited
  /\ conn[ws] = "open"
  /\ wire[ws][id] > 0
  /\ answered < MaxResponses
  /\ Becomes(message([St EXCEPT !.wire[ws][id] = @ - 1, !.answered = @ + 1], ws,
                     [form |-> "message", id |-> id, result |-> result], TRUE))

(***************************************************************************)
(* Actions: the incidents.                                                 *)
(***************************************************************************)
Incident ==
  /\ ~exited
  /\ incidents < MaxIncidents

\* a further join message
JoinAgain(ws) ==
  /\ Incident
  /\ conn[ws] = "open"
  /\ joins > 0
  /\ Becomes(join([St EXCEPT !.joins = @ + 1, !.incidents = @ + 1], ws))

\* The plugin never answers a request.
Ignore(ws, id) ==
  /\ Incident
  /\ conn[ws] = "open"
  /\ wire[ws][id] > 0
  /\ Becomes([St EXCEPT !.incidents = @ + 1, !.wire[ws][id] = @ - 1])

\* A message nobody asked for.
Unsolicited(ws, id, result) ==
  /\ Incident
  /\ conn[ws] = "open"
  /\ Becomes(message([St EXCEPT !.incidents = @ + 1], ws,
                     [form |-> "message", id |-> id, result |-> result], TRUE))

\* An answer that is no {type:'message'} with a result whose write succeeds.
BadAnswer(ws, data, diskOk) ==
  /\ Incident
  /\ conn[ws] = "open"
  /\ wire[ws][data.id] > 0
  /\ \/ data.form = "message" /\ data.result = Undefined /\ diskOk
     \/ data.form # "message" /\ data.result # Undefined /\ diskOk
     \/ data.form = "message" /\ data.result # Undefined /\ ~diskOk
  /\ Becomes(message([St EXCEPT !.incidents = @ + 1, !.wire[ws][data.id] = @ - 1],
                     ws, data, diskOk))

(***************************************************************************)
(* Actions: the timers.                                                    *)
(***************************************************************************)
Due(cb) ==
  /\ ~exited
  /\ timers # <<>>
  /\ timers[1].rem = 0
  /\ timers[1].cb = cb

\* the state in which the callback of the first timer runs
Fired == [St EXCEPT !.timers = Tail(@)]

\* A second passes.  The plugin has answered by then or never will.
Tick ==
  /\ ~exited
  /\ timers # <<>>
  /\ timers[1].rem > 0
  /\ \A ws \in WS : wire[ws] = NoWire
  /\ Becomes([St EXCEPT !.timers =
                [i \in DOMAIN @ |-> [@[i] EXCEPT !.rem = @ - 1]]])

\* ws.send of a stage-3 command; ws.data.channel throws on a socket that
\* never joined, and an exception in a timer ends the process.
stage3Request(st, t) ==
  IF st.wsData[t.ws] = "none" THEN exit(st) ELSE send(st, t.ws, t.id)

Stage3Request == Due("stage3Request") /\ Becomes(stage3Request(Fired, timers[1]))

StartStage4 ==
  /\ Due("startStage4RecursiveProcessing")
  /\ Becomes(startStage4RecursiveProcessing(Fired))

ProcessNextBatch == Due("processNextBatch") /\ Becomes(processNextBatch(Fired))

StartStage5 ==
  /\ Due("startStage5SpecializedExport")
  /\ Becomes(startStage5SpecializedExport(Fired))

getSelection(st) == send(st, st.currentConnection, IdSelection)

GetSelection == Due("getSelection") /\ Becomes(getSelection(Fired))

ExportImages == Due("exportImages") /\ Becomes(exportImages(Fired))

exportImage(st, t) ==
  LET s1 == send(st, st.currentConnection, IdImage)
  IN IF t.last THEN setTimeout(s1, Timer(2000, "finishExport")) ELSE s1

ExportImage == Due("exportImage") /\ Becomes(exportImage(Fired, timers[1]))

StartStage6 ==
  /\ Due("startStage6RecursiveDeepening")
  /\ Becomes(startStage6RecursiveDeepening(Fired))

stage6Batch(st, t) ==
  LET s1 == processNodeBatch(st, t.ids)
  IN IF t.last THEN setTimeout(s1, Timer(2000, "finishExport")) ELSE s1

Stage6Batch == Due("stage6Batch") /\ Becomes(stage6Batch(Fired, timers[1]))

FinishExport == Due("finishExport") /\ Becomes(finishExport(Fired))

ProcessBatches ==
  /\ Due("processBatchesAndOrganizeData")
  /\ Becomes(processBatchesAndOrganizeData(Fired))

\* the last timer of finishExport
finalReset(st) == [resetExportState(st) EXCEPT !.obs.open = FALSE]

FinalReset == Due("resetExportState") /\ Becomes(finalReset(Fired))

Messages(id) ==
  {[form |-> f, id |-> id, result |-> r] :
     f \in Forms, r \in ResultsFor(id) \cup {Undefined}}

Timers ==
  \/ Tick
  \/ Stage3Request
  \/ StartStage4
  \/ ProcessNextBatch
  \/ StartStage5
  \/ GetSelection
  \/ ExportImages
  \/ ExportImage
  \/ StartStage6
  \/ Stage6Batch
  \/ FinishExport
  \/ ProcessBatches
  \/ FinalReset

\* One session with a plugin that answers every request once, or goes away.
SessionNext ==
  \/ \E ws \in WS : Connect(ws)
  \/ \E ws \in WS : Close(ws)
  \/ \E ws \in WS : Join(ws)
  \/ \E ws \in WS, id \in RequestIds : \E r \in ResultsFor(id) : Response(ws, id, r)
  \/ Timers

SessionSpec == Init /\ [][SessionNext]_vars

\* One result for every id: what the plugin of JoinSpec answers, and what a
\* message nobody asked for carries
Typical(id) ==
  IF id = IdStructure THEN PageTree
  ELSE IF id = IdNodes THEN DeepBatch
  ELSE IF id = IdSelection THEN TwoFrames
  ELSE Colors

Next ==
  \/ SessionNext
  \/ \E ws \in WS, id \in RequestIds : Ignore(ws, id)
  \/ \E ws \in WS, id \in UnsolicitedIds : Unsolicited(ws, id, Typical(id))
  \/ \E ws \in WS, id \in RequestIds, diskOk \in BOOLEAN :
        \E data \in Messages(id) : BadAnswer(ws, data, diskOk)

Spec == Init /\ [][Next]_vars

JoinNext ==
  \/ \E ws \in WS : Connect(ws)
  \/ \E ws \in WS : Close(ws)
  \/ \E ws \in WS : Join(ws)
  \/ \E ws \in WS : JoinAgain(ws)
  \/ \E ws \in WS, id \in RequestIds : Response(ws, id, Typical(id))
  \/ Timers

JoinSpec == Init /\ [][JoinNext]_vars

(***************************************************************************)
(* Properties.                                                             *)
(***************************************************************************)
Entered(stage) == stage \in obs.entered

\* the requests with this id that were sent and not answered
Outstanding(id) == Sum([w \in WS |-> wire[w][id]])

\* a join message handled while a session is active
FurtherJoin == joins' = joins + 1 /\ obs.open

\* C1: from an accepted join until the final reset of its session, a further
\* join leaves the export folder, the session state and the current
\* connection as they are and sends no read_my_design.
C1_FurtherJoinRejected ==
  [][FurtherJoin =>
       /\ files' = files
       /\ currentConnection' = currentConnection
       /\ wire' = wire
       /\ <<processedNodes, nodeQueue, documentStructure, stage3Completed,
            stage4Completed, stage4Total, stage5Completed, stage6Started>>' =
          <<processedNodes, nodeQueue, documentStructure, stage3Completed,
            stage4Completed, stage4Total, stage5Completed, stage6Started>>]_vars

StageOrder == <<"stage2", "stage3", "stage4", "stage5", "stage6", "finish">>

\* the session is active and its connection is open
Connected ==
  obs.open /\ currentConnection # NoConn /\ conn[currentConnection] = "open"

\* C2: in a session a stage is entered only after the stage before it; in
\* particular finishExport runs only after the stage-6 rescan was entered.
C2_StagesInOrder ==
  Connected =>
    \A i \in 2..Len(StageOrder) :
       Entered(StageOrder[i]) => Entered(StageOrder[i - 1])

\* C3: the transition out of stage 3 and the transition out of stage 4 are
\* triggered once in a session: stage 4 and stage 5 are entered at most once.
C3_TransitionOnce == obs.twice \cap {"stage4", "stage5"} = {}

\* C4: at most one get_nodes_info request has been sent and not answered.
C4_OneBatchOutstanding == Outstanding(IdNodes) <= 1

\* a message whose handler increments a stage completion counter
Counted ==
  \/ stage3Completed' = stage3Completed + 1
  \/ stage4Completed' = stage4Completed + 1
  \/ stage5Completed' = stage5Completed + 1

\* C5: a response that increments a stage completion counter has had its
\* payload written to its artifact file.
C5_WrittenBeforeCounted == [][Counted => obs'.wrote]_vars

\* C6: a session that waits for the structure has a timer pending that ends
\* the wait, or the process has exited.
C6_BoundedStructureWait ==
  (obs.open /\ ~Entered("stage3")) => (exited \/ timers # <<>>)

\* the connection of the active session closes
ClosesSession ==
  /\ obs.open
  /\ currentConnection # NoConn
  /\ conn[currentConnection] = "open"
  /\ conn'[currentConnection] = "closed"

\* C7: when the connection of the active session closes, the session state
\* is reset, there is no current connection, the queue is empty, and the
\* files stay as they are.
C7_CloseGoesIdle ==
  [][ClosesSession =>
       /\ currentConnection' = NoConn
       /\ ~isExporting'
       /\ nodeQueue' = <<>>
       /\ documentStructure' = Undefined
       /\ files' = files]_vars

\* C8: a session whose stage 4 found no node identifier in the structure has
\* entered stage 5, or has the step that enters it pending.
C8_EmptyStageSkipped ==
  (/\ obs.open
   /\ Entered("stage4")
   /\ Truthy(documentStructure)
   /\ extractNodeIdsFromStructure(documentStructure) = <<>>)
  => (Entered("stage5") \/ timers # <<>> \/ exited)

\* the processNextBatch timer runs with a non-empty queue
Dispatches ==
  /\ Due("processNextBatch")
  /\ nodeQueue # <<>>
  /\ timers' = Tail(timers)

\* C9: processNextBatch with a non-empty queue takes at most batchSize
\* identifiers from the front of the queue, has them in the processed set
\* when the request is sent, and sends one request with those identifiers.
C9_DispatchStep ==
  [][Dispatches =>
       LET sent == obs'.sentBatches
           chunk == sent[Len(sent)]
       IN /\ Len(sent) = Len(obs.sentBatches) + 1
          /\ Len(chunk) <= batchSize
          /\ chunk \o nodeQueue' = nodeQueue
          /\ Range(chunk) \subseteq processedNodes']_vars

\* the session is in its stage 4: entered, and the rescan not yet
InStage4 == obs.open /\ Entered("stage4") /\ ~Entered("stage6")

\* C10: stage 4 with n identifiers sends ceil(n / batchSize) requests; request
\* k carries the k-th chunk of batchSize identifiers in queue order (the last
\* one the rest), the chunks and the queue left together are the n
\* identifiers, and request k + 1 is sent once k responses were handled.
C10_BatchSequence ==
  (InStage4 /\ documentNodeIds # <<>>) =>
    LET sent == obs.sentBatches
        n == Len(documentNodeIds)
    IN /\ Concat(sent) \o nodeQueue = documentNodeIds
       /\ \A k \in DOMAIN sent :
            Len(sent[k]) = Min(batchSize, n - (k - 1) * batchSize)
       /\ Len(sent) <= Ceil(n, batchSize)
       /\ nodeQueue = <<>> => Len(sent) = Ceil(n, batchSize)
       /\ Len(sent) <= stage4Completed + 1
       /\ Outstanding(IdNodes) <= 1

(***************************************************************************)
(* The pending queue and the batch total.                                  *)
(***************************************************************************)
\* the step is the callback cb of the first timer: a socket event changes
\* conn, joins, answered or incidents, and no second passes while a timer
\* is due
Runs(cb) ==
  /\ Due(cb)
  /\ conn' = conn
  /\ joins' = joins
  /\ answered' = answered
  /\ incidents' = incidents

IsPrefix(s, t) == Len(s) <= Len(t) /\ s = SubSeq(t, 1, Len(s))
IsSuffix(s, t) == Len(s) <= Len(t) /\ s = SubSeq(t, Len(t) - Len(s) + 1, Len(t))

\* the nodeIds of the request the step sent, if it sent one
SentNow ==
  IF Len(obs'.sentBatches) > Len(obs.sentBatches)
  THEN obs'.sentBatches[Len(obs'.sentBatches)]
  ELSE <<>>

stageCompleted(st, id) ==
  IF StartsWith(id, "stage3") THEN st.stage3Completed
  ELSE IF StartsWith(id, "stage4") THEN st.stage4Completed
  ELSE st.stage5Completed

\* the state after the answer data to a request of the session arrives on ws
Answered(ws, data, diskOk) ==
  message([St EXCEPT !.wire[ws][data.id] = @ - 1], ws, data, diskOk)

\* a request of stage 3, 4 or 5 of the session on ws awaits its answer
Awaited(ws, id) ==
  /\ ~exited
  /\ conn[ws] = "open"
  /\ currentConnection = ws
  /\ wire[ws][id] > 0
  /\ id[1] \in {"stage3", "stage4", "stage5"}

\* C13: whenever a command of stage 3, 4 or 5 awaits its answer, an answer
\* without result leaves the process running and adds exactly one to the
\* counter of that stage.
C13_EmptyResultCounted ==
  \A ws \in WS, id \in RequestIds :
     Awaited(ws, id) =>
       LET s == Answered(ws, [form |-> "message", id |-> id, result |-> Undefined],
                         TRUE)
       IN /\ ~s.exited
          /\ stageCompleted(s, id) = stageCompleted(St, id) + 1

(***************************************************************************)
(* The state a session starts from and ends in.                            *)
(***************************************************************************)
\* a join arrives while no session is open, and is accepted
AcceptedJoin == joins' = joins + 1 /\ ~obs.open /\ ~isExporting

\* C14: an accepted join empties the export folder, puts every variable of
\* the session back to its initial value (processedNodes, nodeQueue, the stage
\* counters, stage6Started, documentStructure, documentNodeIds,
\* selectedNodeIds) and sends exactly one read_my_design.
C14_JoinRestoresSession ==
  [][AcceptedJoin =>
       /\ files' = EmptyFolder
       /\ processedNodes' = {}
       /\ nodeQueue' = <<>>
       /\ stage3Completed' = 0 /\ stage4Completed' = 0 /\ stage4Total' = 0
       /\ stage5Completed' = 0
       /\ stage6Started' = FALSE
       /\ documentStructure' = Undefined
       /\ documentNodeIds' = <<>>
       /\ selectedNodeIds' = <<>>
       /\ Outstanding(IdStructure)' = Outstanding(IdStructure) + 1
       /\ \A id \in RequestIds \ {IdStructure} : Outstanding(id)' = Outstanding(id)]_vars

\* the number of pending timers with callback cb
Pending(cb) == Cardinality({i \in DOMAIN timers : timers[i].cb = cb})

\* every finishExport has written the statistics and armed one timer for
\* the pass over the batches and one for the reset: the reset that runs
\* follows the statistics and the pass of its finishExport
FinalizationOrder ==
  /\ Entered("finish")
  /\ files.single["metadata.json"] # NoFile
  /\ Pending("processBatchesAndOrganizeData") < Pending("resetExportState")

\* C15: the reset that ends a finalization runs after the statistics were
\* written and after the pass over the batches, and leaves the state a
\* session starts from: no export running and every session variable at its
\* initial value.
C15_FinalizationEndsInitial ==
  [][Runs("resetExportState") =>
       /\ FinalizationOrder
       /\ isExporting' = FALSE
       /\ processedNodes' = {}
       /\ nodeQueue' = <<>>
       /\ stage3Completed' = 0 /\ stage4Completed' = 0 /\ stage4Total' = 0
       /\ stage5Completed' = 0
       /\ stage6Started' = FALSE
       /\ documentStructure' = Undefined
       /\ documentNodeIds' = <<>>
       /\ selectedNodeIds' = <<>>]_vars

\* C16: whenever a command of stage 3, 4 or 5 awaits its answer and the
\* handler would write the answer's payload, a failure of that write ends
\* the process with no counter incremented, no timer of a transition armed
\* and no command sent.
C16_FailedWriteAborts ==
  \A ws \in WS, id \in RequestIds : \A r \in ResultsFor(id) :
     LET data == [form |-> "message", id |-> id, result |-> r]
     IN Awaited(ws, id) /\ Answered(ws, data, TRUE).obs.wrote =>
          LET s == Answered(ws, data, FALSE)
          IN /\ s.exited
             /\ stageCompleted(s, id) = stageCompleted(St, id)
             /\ s.timers = timers
             /\ \A w \in WS, i \in RequestIds : s.wire[w][i] <= wire[w][i]

\* the distinct node ids of the get_nodes_info requests of the session
Dispatched == Range(Concat(obs.sentBatches))

\* C17: the statistics finishExport writes (called by its own timer, by
\* exportImages or by the stage-6 rescan) in a session whose connection is
\* open give, as the number of processed nodes, the number of distinct node
\* ids the session has sent in get_nodes_info requests.
C17_StatisticsCountDispatched ==
  [][/\ Connected
     /\ \/ Runs("finishExport")
        \/ Runs("exportImages")
        \/ Runs("startStage6RecursiveDeepening")
     =>
       LET written == files'.single["metadata.json"]
       IN Has(written, "totalProcessedNodes") =>
            written.totalProcessedNodes = Cardinality(Dispatched)]_vars

(***************************************************************************)
(* The two extractors on their own: each is applied to a tree of nodes.    *)
(***************************************************************************)
MaxChildren == 2

TreeIds == {"1:1", "1:2"} \cup InstanceIds
Group(ch) == [t |-> "obj", children |-> ch]
Seqs(S, n) == UNION {[1..k -> S] : k \in 0..n}
Leaves == {Leaf(id) : id \in TreeIds}
\* a child is a leaf, a node with one leaf below it, or a node without id
\* with one leaf below it
Subtrees ==
  Leaves \cup {Node(id, <<l>>) : id \in TreeIds, l \in Leaves}
         \cup {Group(<<l>>) : l \in Leaves}
Trees == {Node(id, ch) : id \in TreeIds, ch \in Seqs(Subtrees, MaxChildren)}

ExtractInit ==
  /\ Idle
  /\ input \in Trees
  /\ output = Undefined

ExtractNodeIds ==
  /\ output = Undefined
  /\ output' = [f |-> "extractNodeIds", ids |-> extractNodeIds(input, <<>>)]
  /\ UNCHANGED <<server, input>>

ExtractNodeIdsFromStructure ==
  /\ output = Undefined
  /\ output' = [f |-> "extractNodeIdsFromStructure",
                ids |-> extractNodeIdsFromStructure(input)]
  /\ UNCHANGED <<server, input>>

ExtractNext == ExtractNodeIds \/ ExtractNodeIdsFromStructure

ExtractSpec == ExtractInit /\ [][ExtractNext]_vars

\* the positions of the nodes of a tree, as the child indices from the root
RECURSIVE Paths(_)
Paths(node) ==
  {<<>>} \cup
  (IF Has(node, "children")
   THEN UNION {{<<i>> \o q : q \in Paths(node.children[i])} :
                 i \in DOMAIN node.children}
   ELSE {})

RECURSIVE NodeAt(_, _)
NodeAt(node, q) ==
  IF q = <<>> THEN node ELSE NodeAt(node.children[Head(q)], Tail(q))

\* the positions of tree whose node has the identifier id
Occurrences(tree, id) ==
  {q \in Paths(tree) : Has(NodeAt(tree, q), "id") /\ NodeAt(tree, q).id = id}

\* the identifiers reachable from the root through children
Reachable(tree) == {id \in TreeIds : Occurrences(tree, id) # {}}

Count(s, x) == Cardinality({i \in DOMAIN s : s[i] = x})
NoDuplicates(s) == \A i, j \in DOMAIN s : s[i] = s[j] => i = j

MaxFragments == 2

Num(n) == [t |-> "num", n |-> n]
Get(r, f) == IF Has(r, f) THEN r[f] ELSE Undefined

\* {...a, ...b}
Spread(a, b) ==
  [f \in DOMAIN a \cup DOMAIN b |-> IF f \in DOMAIN b THEN b[f] ELSE a[f]]

BatchNodeId == "1:2"
DocFields == {"fills", "strokes", "cornerRadius"}
FieldValues(f) ==
  IF f = "fills" THEN {Arr(<<"A">>), Arr(<<"B">>)}
  ELSE IF f = "strokes" THEN {Arr(<<"S">>)}
  ELSE {Num(8)}
\* the node objects with the fields F
NodesWith(F) ==
  {Spread(Leaf(BatchNodeId), d) :
     d \in {e \in [F -> UNION {FieldValues(f) : f \in DocFields}] :
               \A f \in F : e[f] \in FieldValues(f)}}
Documents == UNION {NodesWith(F) : F \in SUBSET DocFields}
\* the items of the batch files: {nodeId, document}, or an item without
\* document
BatchItems ==
  {[t |-> "obj", nodeId |-> BatchNodeId, document |-> d] : d \in Documents}
    \cup {[t |-> "obj", nodeId |-> BatchNodeId]}
\* the record of the node in the structure lists, if it has one
StructureNodes ==
  {Undefined, Leaf(BatchNodeId)} \cup NodesWith({"fills", "cornerRadius"})

batchData(batchItem, source) ==
  [t |-> "obj", nodeId |-> batchItem.nodeId, source |-> source]

\* enrichedNode, had it taken detailedFills from the existing record
enrichedNodeDetailsExisting(existingNode, batchItem) ==
  Spread(Spread(existingNode, batchItem.document),
         [originalFills |-> Get(existingNode, "fills"),
          originalStrokes |-> Get(existingNode, "strokes"),
          detailedFills |-> Get(existingNode, "fills"),
          detailedStrokes |-> Get(batchItem.document, "strokes"),
          detailedChildren |-> Get(batchItem.document, "children"),
          detailedBoundingBox |-> Get(batchItem.document, "absoluteBoundingBox"),
          cornerRadius |-> Get(batchItem.document, "cornerRadius"),
          batchData |-> batchData(batchItem, "batch")])

enrichedNode(existingNode, batchItem) ==
  Spread(Spread(existingNode, batchItem.document),
         [originalFills |-> Get(existingNode, "fills"),
          originalStrokes |-> Get(existingNode, "strokes"),
          detailedFills |-> Get(batchItem.document, "fills"),
          detailedStrokes |-> Get(batchItem.document, "strokes"),
          detailedChildren |-> Get(batchItem.document, "children"),
          detailedBoundingBox |-> Get(batchItem.document, "absoluteBoundingBox"),
          cornerRadius |-> Get(batchItem.document, "cornerRadius"),
          batchData |-> batchData(batchItem, "batch")])

newNode(batchItem) ==
  Spread(batchItem.document, [batchData |-> batchData(batchItem, "batch-only")])

RECURSIVE removeDuplicates(_)
\* nodes.filter with a Set of the ids seen: the first record of each id
removeDuplicates(nodes) ==
  IF nodes = <<>> THEN <<>>
  ELSE LET r == removeDuplicates(SubSeq(nodes, 1, Len(nodes) - 1))
           node == nodes[Len(nodes)]
       IN IF \E i \in DOMAIN r : r[i].id = node.id THEN r ELSE Append(r, node)

\* new Map(uniqueNodes.map(node => [node.id, node])).get(nodeId)
nodesMapGet(uniqueNodes, nodeId) ==
  IF \E i \in DOMAIN uniqueNodes : uniqueNodes[i].id = nodeId
  THEN LET last == CHOOSE i \in DOMAIN uniqueNodes :
                     /\ uniqueNodes[i].id = nodeId
                     /\ \A j \in DOMAIN uniqueNodes :
                          uniqueNodes[j].id = nodeId => j <= i
       IN uniqueNodes[last]
  ELSE Undefined

\* index = enrichedNodes.findIndex(n => n.id === nodeId);
\* if (index !== -1) enrichedNodes[index] = node
replaceFirst(enrichedNodes, nodeId, node) ==
  IF \E i \in DOMAIN enrichedNodes : enrichedNodes[i].id = nodeId
  THEN LET index == CHOOSE i \in DOMAIN enrichedNodes :
                      /\ enrichedNodes[i].id = nodeId
                      /\ \A j \in DOMAIN enrichedNodes :
                           enrichedNodes[j].id = nodeId => i <= j
       IN [enrichedNodes EXCEPT ![index] = node]
  ELSE enrichedNodes

\* the values of field f the records met by the items so far had, with that
\* of the record the next item meets
Had(f) == output.had[f] \cup ({Get(output.node, f)} \ {Undefined})

\* input: the batch items still to come; output.node: nodesMap.get of the
\* node; output.existing and output.applied: the record the last item with
\* a document met, and that document; output.had: the fills and strokes
\* of the records the items with a document met; output.enrichedNodes: the
\* node list.  The structure lists hold up to two records of the node.
EnrichInit ==
  /\ Idle
  /\ input \in UNION {[1..k -> BatchItems] : k \in 1..MaxFragments}
  /\ \E allNodes \in UNION {[1..k -> StructureNodes \ {Undefined}] : k \in 0..2} :
       LET uniqueNodes == removeDuplicates(allNodes)
       IN output = [node |-> nodesMapGet(uniqueNodes, BatchNodeId),
                    existing |-> Undefined, applied |-> Undefined,
                    had |-> [fills |-> {}, strokes |-> {}],
                    enrichedNodes |-> uniqueNodes]

NextItem(batchItem) ==
  /\ input # <<>>
  /\ batchItem = Head(input)
  /\ input' = Tail(input)
  /\ UNCHANGED server

Enrich ==
  \E batchItem \in BatchItems :
     /\ NextItem(batchItem)
     /\ Has(batchItem, "nodeId") /\ Has(batchItem, "document")
     /\ Truthy(output.node)
     /\ output' = [node |-> enrichedNode(output.node, batchItem),
                   existing |-> output.node, applied |-> batchItem.document,
                   had |-> [fills |-> Had("fills"), strokes |-> Had("strokes")],
                   enrichedNodes |->
                     replaceFirst(output.enrichedNodes, batchItem.nodeId,
                                  enrichedNode(output.node, batchItem))]

\* AddBatchOnly, had it pushed the new record without nodesMap.set
AddBatchOnlyUnmapped ==
  \E batchItem \in BatchItems :
     /\ NextItem(batchItem)
     /\ Has(batchItem, "nodeId") /\ Has(batchItem, "document")
     /\ ~Truthy(output.node)
     /\ output' = [output EXCEPT !.applied = batchItem.document,
                                 !.enrichedNodes = Append(@, newNode(batchItem))]

AddBatchOnly ==
  \E batchItem \in BatchItems :
     /\ NextItem(batchItem)
     /\ Has(batchItem, "nodeId") /\ Has(batchItem, "document")
     /\ ~Truthy(output.node)
     /\ output' = [node |-> newNode(batchItem),
                   existing |-> output.node, applied |-> batchItem.document,
                   had |-> output.had,
                   enrichedNodes |-> Append(output.enrichedNodes, newNode(batchItem))]

SkipItem ==
  \E batchItem \in BatchItems :
     /\ NextItem(batchItem)
     /\ ~(Has(batchItem, "nodeId") /\ Has(batchItem, "document"))
     /\ UNCHANGED output

EnrichNext == Enrich \/ AddBatchOnly \/ SkipItem

EnrichSpec == EnrichInit /\ [][EnrichNext]_vars

\* a batch item with a document has been applied
Applied == Truthy(output.applied)

\* the record has every field of the document applied last, with its
\* value, the document's fills and strokes as detailedFills and
\* detailedStrokes, and as originalFills and originalStrokes the fills and
\* strokes of the record the document met
ReconciledWithLast ==
  /\ \A f \in DOMAIN output.applied :
        Has(output.node, f) /\ output.node[f] = output.applied[f]
  /\ Get(output.node, "detailedFills") = Get(output.applied, "fills")
  /\ Get(output.node, "detailedStrokes") = Get(output.applied, "strokes")
  /\ Get(output.node, "originalFills") = Get(output.existing, "fills")
  /\ Get(output.node, "originalStrokes") = Get(output.existing, "strokes")

\* C19 as stated: after any sequence of batch items of one node, applied in
\* order, the record is reconciled with the last of them.
C19_LastFragmentWins == Applied => ReconciledWithLast

\* C19 as amended: the same, for a document that met a record of the node;
\* a document that met none is the record, with batchData and without
\* detailed or original fields.
C19_LastFragmentWinsOnRecord ==
  Applied =>
    IF Truthy(output.existing) THEN ReconciledWithLast
    ELSE /\ DOMAIN output.node = DOMAIN output.applied \cup {"batchData"}
         /\ \A f \in DOMAIN output.applied : output.node[f] = output.applied[f]

\* fills [A], then fills [B] with cornerRadius 8: detailedFills [B],
\* originalFills [A], cornerRadius 8
C19_SecondFragmentApplied ==
  /\ Applied
  /\ input = <<>>
  /\ Get(output.existing, "detailedFills") = Arr(<<"A">>)
  /\ Get(output.node, "detailedFills") = Arr(<<"B">>)
  /\ Get(output.node, "originalFills") = Arr(<<"A">>)
  /\ Get(output.node, "cornerRadius") = Num(8)

\* the fields enrichedNode derives from the document and the record
DerivedFields ==
  {"originalFills", "originalStrokes", "detailedFills", "detailedStrokes",
   "detailedChildren", "detailedBoundingBox", "batchData"}

\* C20: a document laid over a record of the node wins with the fields it
\* has; every other field of the record keeps its value, and none is
\* removed or undefined afterwards.
C20_ShallowMerge ==
  Applied /\ Truthy(output.existing) =>
    /\ \A f \in DOMAIN output.existing \ DerivedFields :
          /\ Has(output.node, f)
          /\ output.node[f] = IF f \in DOMAIN output.applied
                              THEN output.applied[f] ELSE output.existing[f]
    /\ \A f \in DOMAIN output.existing \cap DocFields :
          output.node[f] # Undefined

\* the values of fills (strokes) the merged record holds under any of its
\* keys for them
Kept(f, original, detailed) ==
  {Get(output.node, f), Get(output.node, original), Get(output.node, detailed)}

\* C21: after any sequence of batch items of one node, every fills and
\* strokes value that a record of the node had when an item was laid over
\* it is still in the merged record, under fills, originalFills or
\* detailedFills (strokes, originalStrokes or detailedStrokes).
C21_FillsRecoverable ==
  Applied =>
    /\ output.had.fills \subseteq Kept("fills", "originalFills", "detailedFills")
    /\ output.had.strokes \subseteq
         Kept("strokes", "originalStrokes", "detailedStrokes")

OneWord(w) == <<<<w>>>>
TwoWords(v, w) == <<<<v, w>>>>

toLowerCaseWord(w) ==
  CASE w = "Home" -> "home"
    [] w = "Button" -> "button"
    [] w = "Card" -> "card"
    [] w = "Menu" -> "menu"
    [] w = "Label" -> "label"
    [] OTHER -> w

\* name.toLowerCase()
toLowerCase(name) ==
  [i \in DOMAIN name |->
     [j \in DOMAIN name[i] |-> toLowerCaseWord(name[i][j])]]

\* name.includes(key), for the keys the classifiers look for
includes(name, key) ==
  \E i \in DOMAIN name : \E j \in DOMAIN name[i] : name[i][j] = key

\* part.replace(/\s+/g, '-')
RECURSIVE replaceWhitespace(_)
replaceWhitespace(words) ==
  IF words = <<>> THEN ""
  ELSE IF Len(words) = 1 THEN words[1]
  ELSE words[1] \o "-" \o replaceWhitespace(Tail(words))

\* `layer-${rootFrame.name.toLowerCase().replace(/\s+/g, '-')}`, as the
\* path parts join() sees in it
layerFolderName(rootFrame) ==
  LET lower == toLowerCase(rootFrame.name)
  IN [i \in DOMAIN lower |->
        IF i = 1 THEN "layer-" \o replaceWhitespace(lower[i])
        ELSE replaceWhitespace(lower[i])]

\* path.join: the parts of rel appended to path, '..' taking the last part
\* away
RECURSIVE pathJoin(_, _)
pathJoin(path, rel) ==
  IF rel = <<>> THEN path
  ELSE IF Head(rel) = ".."
       THEN pathJoin(IF path = <<>> THEN <<>>
                 ELSE SubSeq(path, 1, Len(path) - 1), Tail(rel))
       ELSE pathJoin(Append(path, Head(rel)), Tail(rel))

exportPath == <<"export">>
reorganizedPath == <<"export", "reorganized">>
tokensPath == pathJoin(reorganizedPath, <<"design-tokens">>)

\* The file system: the directories and the content of the files.
Parent(path) == SubSeq(path, 1, Len(path) - 1)
Prefixes(path) == {SubSeq(path, 1, k) : k \in 1..Len(path)}

existsSync(fs, path) == path \in fs.dirs \/ path \in DOMAIN fs.files

\* mkdirSync(path, {recursive: true}) throws when a part of the path is a file
mkdirThrows(fs, path) == Prefixes(path) \cap DOMAIN fs.files # {}
mkdirSync(fs, path) == [fs EXCEPT !.dirs = fs.dirs \cup Prefixes(path)]

\* writeFileSync(path, content) throws when the directory is missing or the
\* path is a directory
writeThrows(fs, path) == Parent(path) \notin fs.dirs \/ path \in fs.dirs
writeFileSync(fs, path, content) ==
  [fs EXCEPT !.files =
     [p \in DOMAIN fs.files \cup {path} |->
        IF p = path THEN content ELSE fs.files[p]]]

\* The steps of a stage that touch the file system:
\*   if (!existsSync(path)) { mkdirSync(path); createdFolders++ }
\*   writeFileSync(path, content); createdFiles++
\*   if (existsSync(src)) writeFileSync(dest, readFileSync(src))
EnsureDir(path, counted) == [op |-> "mkdir", path |-> path, counted |-> counted]
WriteFile(path, content) == [op |-> "write", path |-> path, content |-> content]
CopyFile(src, dest) == [op |-> "copy", src |-> src, path |-> dest]

Threw(s) == [s EXCEPT !.threw = TRUE]

\* a step that writes a token list after the list already in the file
StepMergingTokens(s, o, ioError) ==
  CASE o.op = "mkdir" ->
         IF existsSync(s.fs, o.path) THEN s
         ELSE IF ioError \/ mkdirThrows(s.fs, o.path) THEN Threw(s)
         ELSE [s EXCEPT !.fs = mkdirSync(s.fs, o.path),
                        !.createdFolders = IF o.counted THEN @ + 1 ELSE @,
                        !.log = Append(@, o.path)]
    [] o.op = "write" ->
         IF ioError \/ writeThrows(s.fs, o.path) THEN Threw(s)
         ELSE [s EXCEPT !.fs = writeFileSync(
                               s.fs, o.path,
                               IF IsPrefix(tokensPath, o.path)
                                  /\ o.path \in DOMAIN s.fs.files
                               THEN s.fs.files[o.path] \o o.content
                               ELSE o.content),
                        !.createdFiles = @ + 1,
                        !.log = Append(@, o.path)]
    [] o.op = "copy" ->
         IF o.src \notin DOMAIN s.fs.files THEN s
         ELSE IF ioError \/ writeThrows(s.fs, o.path) THEN Threw(s)
         ELSE [s EXCEPT !.fs = writeFileSync(s.fs, o.path, s.fs.files[o.src]),
                        !.log = Append(@, o.path)]

\* one step on s = [fs, createdFolders, createdFiles, log, threw]; ioError
\* is the operating system refusing the step's mkdir or write
Step(s, o, ioError) ==
  CASE o.op = "mkdir" ->
         IF existsSync(s.fs, o.path) THEN s
         ELSE IF ioError \/ mkdirThrows(s.fs, o.path) THEN Threw(s)
         ELSE [s EXCEPT !.fs = mkdirSync(s.fs, o.path),
                        !.createdFolders = IF o.counted THEN @ + 1 ELSE @,
                        !.log = Append(@, o.path)]
    [] o.op = "write" ->
         IF ioError \/ writeThrows(s.fs, o.path) THEN Threw(s)
         ELSE [s EXCEPT !.fs = writeFileSync(s.fs, o.path, o.content),
                        !.createdFiles = @ + 1,
                        !.log = Append(@, o.path)]
    [] o.op = "copy" ->
         IF o.src \notin DOMAIN s.fs.files THEN s
         ELSE IF ioError \/ writeThrows(s.fs, o.path) THEN Threw(s)
         ELSE [s EXCEPT !.fs = writeFileSync(s.fs, o.path, s.fs.files[o.src]),
                        !.log = Append(@, o.path)]

\* the steps from the i-th on, in order, up to the first that throws
RECURSIVE RunSteps(_, _, _, _)
RunSteps(s, ops, i, fails) ==
  IF i > Len(ops) \/ s.threw THEN s
  ELSE RunSteps(Step(s, ops[i], i = fails), ops, i + 1, fails)

\* ---- nodes ----
NoParent == ""
FigmaNode(id, name, type, parentId, fills) ==
  [id |-> id, name |-> name, type |-> type, parentId |-> parentId,
   fills |-> fills]

\* lines 986-1009
isButton(node) ==
  \/ includes(toLowerCase(node.name), "button")
  \/ node.type = "INSTANCE" /\ includes(toLowerCase(node.name), "btn")
isCard(node) ==
  \/ includes(toLowerCase(node.name), "card")
  \/ node.type = "FRAME" /\ includes(toLowerCase(node.name), "card")
isInput(node) ==
  \/ includes(toLowerCase(node.name), "input")
  \/ includes(toLowerCase(node.name), "field")
isNavigation(node) ==
  \/ includes(toLowerCase(node.name), "nav")
  \/ includes(toLowerCase(node.name), "menu")
isFeedback(node) ==
  \/ includes(toLowerCase(node.name), "alert")
  \/ includes(toLowerCase(node.name), "notification")

\* the five independent filters of groupComponents and extractLayerData
classify(nodes) ==
  [buttons |-> SelectSeq(nodes, isButton),
   cards |-> SelectSeq(nodes, isCard),
   inputs |-> SelectSeq(nodes, isInput),
   navigation |-> SelectSeq(nodes, isNavigation),
   feedback |-> SelectSeq(nodes, isFeedback)]

ComponentTypes == <<"buttons", "cards", "inputs", "navigation", "feedback">>

\* nodes.find(n => n.id === nodeId) found something
findsId(nodes, nodeId) == \E i \in DOMAIN nodes : nodes[i].id = nodeId
findById(nodes, nodeId) ==
  nodes[CHOOSE i \in DOMAIN nodes :
          /\ nodes[i].id = nodeId
          /\ \A j \in DOMAIN nodes : nodes[j].id = nodeId => i <= j]

\* getNodesForLayer: the depth-first walk from layerId over the nodes whose
\* parentId names the node at hand, each id once
RECURSIVE collectNodes(_, _, _)
RECURSIVE collectChildren(_, _, _)
collectNodes(nodes, nodeId, acc) ==
  IF nodeId \in acc.processedIds THEN acc
  ELSE LET seen == [acc EXCEPT !.processedIds = @ \cup {nodeId}]
       IN IF findsId(nodes, nodeId)
          THEN collectChildren(
                 nodes,
                 SelectSeq(nodes, LAMBDA n : n.parentId = nodeId),
                 [seen EXCEPT !.layerNodes = Append(@, findById(nodes, nodeId))])
          ELSE seen
collectChildren(nodes, children, acc) ==
  IF children = <<>> THEN acc
  ELSE collectChildren(nodes, Tail(children),
                       collectNodes(nodes, Head(children).id, acc))

getNodesForLayerChildren(nodes, layerId) ==
  IF findsId(nodes, layerId)
  THEN <<findById(nodes, layerId)>>
         \o SelectSeq(nodes, LAMBDA n : n.parentId = layerId)
  ELSE <<>>

getNodesForLayer(nodes, layerId) ==
  IF findsId(nodes, layerId)
  THEN collectNodes(nodes, layerId,
                    [layerNodes |-> <<>>, processedIds |-> {}]).layerNodes
  ELSE <<>>

\* Array.from(new Set(values)): the values in the order of their first
\* occurrence
RECURSIVE unique(_)
unique(values) ==
  IF values = <<>> THEN <<>>
  ELSE LET r == unique(SubSeq(values, 1, Len(values) - 1))
           v == values[Len(values)]
       IN IF \E i \in DOMAIN r : r[i] = v THEN r ELSE Append(r, v)

\* extractUniqueColors: the colours of the nodes that have fills
extractUniqueColors(nodes) ==
  LET filled == SelectSeq(nodes, LAMBDA n : n.fills # "")
  IN unique([i \in DOMAIN filled |-> filled[i].fills])

\* hierarchy[parentId] = the ids of the layer's nodes with that parentId
hierarchy(nodes) ==
  LET parents == {nodes[i].parentId : i \in DOMAIN nodes} \ {NoParent}
  IN [p \in parents |->
        LET of == SelectSeq(nodes, LAMBDA n : n.parentId = p)
        IN [i \in DOMAIN of |-> of[i].id]]

extractLayerData(nodes, layer) ==
  LET components == classify(nodes)
      styles == [colors |-> extractUniqueColors(nodes), typography |-> <<>>,
                 spacing |-> <<>>, shadows |-> <<>>]
  IN [metadata |->
        [id |-> layer.id, name |-> layer.name, type |-> layer.type,
         nodeCount |-> Len(nodes),
         componentCount |->
           Len(components.buttons) + Len(components.cards)
             + Len(components.inputs) + Len(components.navigation)
             + Len(components.feedback),
         styleCount |-> Len(styles.colors)],
      structure |->
        [rootFrame |-> IF findsId(nodes, layer.id)
                       THEN findById(nodes, layer.id) ELSE nodes[1],
         children |-> SelectSeq(nodes, LAMBDA n : n.parentId = layer.id),
         hierarchy |-> hierarchy(nodes)],
      components |-> components,
      styles |-> styles,
      content |->
        [text |-> SelectSeq(nodes, LAMBDA n : n.type = "TEXT"),
         labels |-> SelectSeq(nodes,
                      LAMBDA n : includes(toLowerCase(n.name), "label"))]]

\* ---- the stages ----
layersPath == pathJoin(reorganizedPath, <<"layers">>)
LayerFiles ==
  <<"structure.json", "components.json", "styles.json", "content.json",
    "metadata.json">>

\* the body of the loop over rootFrames, lines 538-582
layerSteps(nodes, rootFrame) ==
  LET layerNodes == getNodesForLayer(nodes, rootFrame.id)
      layerPath == pathJoin(layersPath, layerFolderName(rootFrame))
      layerData == extractLayerData(layerNodes, rootFrame)
  IN <<EnsureDir(layerPath, TRUE),
       WriteFile(pathJoin(layerPath, <<"structure.json">>), layerData.structure),
       WriteFile(pathJoin(layerPath, <<"components.json">>), layerData.components),
       WriteFile(pathJoin(layerPath, <<"styles.json">>), layerData.styles),
       WriteFile(pathJoin(layerPath, <<"content.json">>), layerData.content),
       WriteFile(pathJoin(layerPath, <<"metadata.json">>), layerData.metadata)>>

RECURSIVE forEachRootFrame(_, _)
forEachRootFrame(nodes, rootFrames) ==
  IF rootFrames = <<>> THEN <<>>
  ELSE layerSteps(nodes, Head(rootFrames))
         \o forEachRootFrame(nodes, Tail(rootFrames))

separateByLayersUncounted(nodes, rootFrames) ==
  <<EnsureDir(layersPath, FALSE)>> \o forEachRootFrame(nodes, rootFrames)

separateByLayers(nodes, rootFrames) ==
  <<EnsureDir(layersPath, TRUE)>> \o forEachRootFrame(nodes, rootFrames)

componentsPath == pathJoin(reorganizedPath, <<"components">>)

RECURSIVE forEachType(_, _)
forEachType(groupedComponents, types) ==
  IF types = <<>> THEN <<>>
  ELSE LET type == Head(types)
           typePath == pathJoin(componentsPath, <<type>>)
       IN (IF Len(groupedComponents[type]) > 0
           THEN <<EnsureDir(typePath, TRUE),
                  WriteFile(pathJoin(typePath, <<type \o ".json">>),
                            groupedComponents[type])>>
           ELSE <<>>)
          \o forEachType(groupedComponents, Tail(types))

groupComponents(nodes) ==
  <<EnsureDir(componentsPath, TRUE)>>
    \o forEachType(classify(nodes), ComponentTypes)

\* the nodes here carry no style, cornerRadius or strokes: the typography,
\* spacing and shadow lists are empty
extractDesignTokens(nodes) ==
  <<EnsureDir(tokensPath, TRUE),
    WriteFile(pathJoin(tokensPath, <<"colors.json">>), extractUniqueColors(nodes)),
    WriteFile(pathJoin(tokensPath, <<"typography.json">>), <<>>),
    WriteFile(pathJoin(tokensPath, <<"spacing.json">>), <<>>),
    WriteFile(pathJoin(tokensPath, <<"shadows.json">>), <<>>)>>

\* the directories right under layers/
layerFolders(fs) == {d \in fs.dirs : Len(d) > 0 /\ Parent(d) = layersPath}

componentsLength(componentsData) ==
  Len(componentsData.buttons) + Len(componentsData.cards)
    + Len(componentsData.inputs) + Len(componentsData.navigation)
    + Len(componentsData.feedback)

RECURSIVE countFolders(_, _)
countFolders(fs, folders) ==
  IF folders = {} THEN 0
  ELSE LET layerPath == CHOOSE d \in folders : TRUE
           file == pathJoin(layerPath, <<"components.json">>)
       IN (IF file \in DOMAIN fs.files
           THEN componentsLength(fs.files[file]) ELSE 0)
          + countFolders(fs, folders \ {layerPath})

countSavedNodes(fs) ==
  IF existsSync(fs, layersPath) THEN countFolders(fs, layerFolders(fs)) ELSE 0

CriticalFiles ==
  <<<<"annotations", "all_annotations.json">>,
    <<"structure", "document_structure.json">>,
    <<"metadata", "document_info.json">>,
    <<"styles", "colors.json">>,
    <<"styles", "extracted_styles.json">>>>
ImportantFiles ==
  <<<<"components", "extracted_components.json">>,
    <<"components", "local_components.json">>>>

\* the files of a directory, in the order readdirSync lists them
RECURSIVE readdirSync(_, _)
readdirSync(fs, dir) ==
  LET here == {p \in DOMAIN fs.files : Parent(p) = dir}
  IN IF here = {} THEN <<>>
     ELSE LET p == CHOOSE q \in here : TRUE
          IN <<p[Len(p)]>>
               \o readdirSync([fs EXCEPT !.files =
                                 [q \in DOMAIN fs.files \ {p} |-> fs.files[q]]],
                              dir)

copyFrom(dir, names) ==
  [i \in DOMAIN names |->
     CopyFile(pathJoin(exportPath, <<dir, names[i]>>),
              pathJoin(reorganizedPath, <<dir, names[i]>>))]

copyMissingData(fs) ==
  <<EnsureDir(pathJoin(reorganizedPath, <<"annotations">>), FALSE),
    EnsureDir(pathJoin(reorganizedPath, <<"structure">>), FALSE),
    EnsureDir(pathJoin(reorganizedPath, <<"logs">>), FALSE)>>
    \o [i \in DOMAIN CriticalFiles |->
          CopyFile(pathJoin(exportPath, CriticalFiles[i]),
                   pathJoin(reorganizedPath, CriticalFiles[i]))]
    \o [i \in DOMAIN ImportantFiles |->
          CopyFile(pathJoin(exportPath, ImportantFiles[i]),
                   pathJoin(reorganizedPath, ImportantFiles[i]))]
    \o copyFrom("images", readdirSync(fs, pathJoin(exportPath, <<"images">>)))
    \o copyFrom("logs", readdirSync(fs, pathJoin(exportPath, <<"logs">>)))

\* ---- the artifacts a run starts from ----
MaxIoErrors == 1

Traversal == <<<<"a">>, <<"..">>, <<"..">>, <<"..">>, <<"metadata">>>>

Optional(S) == {<<>>} \cup {<<x>> : x \in S}

Frames1 ==
  {FigmaNode("1:1", name, "FRAME", NoParent, "white") :
     name \in {OneWord("Home"), Traversal}}
Frames2 ==
  {FigmaNode("2:1", name, "FRAME", NoParent, "white") :
     name \in {OneWord("Home"), TwoWords("Menu", "Card")}}
Children2 ==
  {FigmaNode("1:2", TwoWords("Button", "Card"), "INSTANCE", p, "red") :
     p \in {"1:1", "1:3"}}
  \cup {FigmaNode("1:2", OneWord("Label"), "TEXT", "2:1", "red")}
Children3 == {FigmaNode("1:3", OneWord("btn"), "INSTANCE", "1:2", "")}

\* all_nodes.json
AllNodes ==
  {f1 \o f2 \o c2 \o c3 :
     f1 \in Optional(Frames1), f2 \in Optional(Frames2),
     c2 \in Optional(Children2), c3 \in Optional(Children3)}

isFrame(node) == node.type = "FRAME"

\* all_nodes.json is missing or holds a list of nodes; frames.json is
\* missing or lists the frames of all_nodes.json again; batches/, styles/,
\* components/ and images/ are missing, metadata/ is there or not
Artifacts ==
  UNION {[allNodes : {a},
          allNodesFile : IF a = <<>> THEN BOOLEAN ELSE {TRUE},
          frames : {<<>>, SelectSeq(a, isFrame)},
          documentInfo : BOOLEAN] : a \in AllNodes}

nodesPath == pathJoin(exportPath, <<"nodes">>)
allNodesPath == pathJoin(nodesPath, <<"all_nodes.json">>)
framesPath == pathJoin(nodesPath, <<"frames.json">>)
documentInfoPath == pathJoin(exportPath, <<"metadata", "document_info.json">>)
annotationsPath ==
  pathJoin(exportPath, <<"annotations", "all_annotations.json">>)

\* the export/ tree the session left
ExportTree(artifacts) ==
  LET paths == {annotationsPath}
                 \cup (IF artifacts.allNodesFile THEN {allNodesPath} ELSE {})
                 \cup (IF artifacts.frames # <<>> THEN {framesPath} ELSE {})
                 \cup (IF artifacts.documentInfo
                       THEN {documentInfoPath} ELSE {})
  IN [dirs |-> UNION {Prefixes(Parent(p)) : p \in paths},
      files |-> [p \in paths |->
                   CASE p = allNodesPath -> artifacts.allNodes
                     [] p = framesPath -> artifacts.frames
                     [] OTHER -> <<p[Len(p)]>>]]

\* a new FigmaBatchReorganizer over the tree fs
Reorganizer(fs, ioErrors, previous) ==
  [stage |-> "start", fs |-> fs,
   statistics |-> [originalNodes |-> 0, savedNodes |-> 0, dataLoss |-> 0,
                   createdFolders |-> 0, createdFiles |-> 0],
   errors |-> <<>>, warnings |-> <<>>, success |-> FALSE,
   nodes |-> <<>>, rootFrames |-> <<>>,
   log |-> <<>>, ioErrors |-> ioErrors, previous |-> previous]

ReorganizeInit ==
  /\ Idle
  /\ input \in Artifacts
  /\ output = Reorganizer(ExportTree(input), 0, <<>>)

\* the stage at hand starts on the tree and the counters as they are
Proc ==
  [fs |-> output.fs,
   createdFolders |-> output.statistics.createdFolders,
   createdFiles |-> output.statistics.createdFiles,
   log |-> output.log, threw |-> FALSE]

\* which step the operating system refuses, 0 for none
Faults(ops) == IF output.ioErrors < MaxIoErrors THEN 0..Len(ops) ELSE {0}

Ran(s, fails) ==
  [output EXCEPT !.fs = s.fs,
                 !.statistics.createdFolders = s.createdFolders,
                 !.statistics.createdFiles = s.createdFiles,
                 !.log = s.log,
                 !.ioErrors = IF fails > 0 THEN @ + 1 ELSE @]

\* the catch of reorganize(), lines 212-223
Failed(o, error) ==
  [o EXCEPT !.stage = "returned", !.success = FALSE,
            !.errors = Append(@, error)]

\* a stage of reorganize() whose failure is thrown on: its steps run on
\* the tree, and a throw ends the run in the catch
Stage(to, ops, error, fails) ==
  LET s == RunSteps(Proc, ops, 1, fails)
  IN IF s.threw THEN Failed(Ran(s, fails), error)
     ELSE [Ran(s, fails) EXCEPT !.stage = to]

readNodes(fs, path) == IF path \in DOMAIN fs.files THEN fs.files[path] ELSE <<>>

isRootFrame(node) == node.type = "FRAME" /\ node.parentId = NoParent

\* analyzeAndClassify without the node dump: the stage fails
analyzeAndClassifyStrict(o) ==
  LET allNodes == readNodes(o.fs, allNodesPath) \o readNodes(o.fs, framesPath)
      enrichedNodes == removeDuplicates(allNodes)
  IN IF allNodesPath \notin DOMAIN o.fs.files THEN Failed(o, "analysis")
     ELSE [o EXCEPT !.stage = "analyzed",
                    !.statistics.originalNodes = Len(allNodes),
                    !.nodes = enrichedNodes,
                    !.rootFrames = SelectSeq(enrichedNodes, isRootFrame)]

\* the node dumps that are there are read, the others add nothing
analyzeAndClassify(o) ==
  LET allNodes == readNodes(o.fs, allNodesPath) \o readNodes(o.fs, framesPath)
      enrichedNodes == removeDuplicates(allNodes)
  IN [o EXCEPT !.stage = "analyzed",
               !.statistics.originalNodes = Len(allNodes),
               !.nodes = enrichedNodes,
               !.rootFrames = SelectSeq(enrichedNodes, isRootFrame)]

\* lines 158-168
AnalyzeAndClassify ==
  /\ output.stage = "start"
  /\ \E fails \in Faults(<<EnsureDir(reorganizedPath, FALSE)>>) :
       LET s == RunSteps(Proc, <<EnsureDir(reorganizedPath, FALSE)>>, 1, fails)
       IN output' = IF s.threw THEN Failed(Ran(s, fails), "mkdir")
                    ELSE analyzeAndClassify(Ran(s, fails))
  /\ UNCHANGED <<server, input>>

SeparateByLayers ==
  /\ output.stage = "analyzed"
  /\ \E fails \in Faults(separateByLayers(output.nodes, output.rootFrames)) :
       output' = Stage("layers",
                       separateByLayers(output.nodes, output.rootFrames),
                       "layers", fails)
  /\ UNCHANGED <<server, input>>

GroupComponents ==
  /\ output.stage = "layers"
  /\ \E fails \in Faults(groupComponents(output.nodes)) :
       output' = Stage("components", groupComponents(output.nodes),
                       "components", fails)
  /\ UNCHANGED <<server, input>>

ExtractDesignTokens ==
  /\ output.stage = "components"
  /\ \E fails \in Faults(extractDesignTokens(output.nodes)) :
       output' = Stage("tokens", extractDesignTokens(output.nodes),
                       "tokens", fails)
  /\ UNCHANGED <<server, input>>

validateAndCheckFatal(o) ==
  LET savedNodes == countSavedNodes(o.fs)
      dataLoss == o.statistics.originalNodes - savedNodes
      counted == [o EXCEPT !.statistics.savedNodes = savedNodes,
                           !.statistics.dataLoss = dataLoss]
  IN IF dataLoss > 0 THEN Failed(counted, "validation")
     ELSE [counted EXCEPT !.stage = "validated"]

validateAndCheck(o) ==
  LET savedNodes == countSavedNodes(o.fs)
      dataLoss == o.statistics.originalNodes - savedNodes
  IN [o EXCEPT !.stage = "validated",
               !.statistics.savedNodes = savedNodes,
               !.statistics.dataLoss = dataLoss,
               !.warnings = IF dataLoss > 0 THEN Append(@, dataLoss) ELSE @]

ValidateAndCheck ==
  /\ output.stage = "tokens"
  /\ output' = validateAndCheck(output)
  /\ UNCHANGED <<server, input>>

\* copyMissingData catches what it throws, lines 838-842
CopyMissingData ==
  /\ output.stage = "validated"
  /\ \E fails \in Faults(copyMissingData(output.fs)) :
       LET s == RunSteps(Proc, copyMissingData(output.fs), 1, fails)
       IN output' =
            [Ran(s, fails) EXCEPT
               !.stage = "copied",
               !.errors = IF s.threw THEN Append(@, "copy") ELSE @]
  /\ UNCHANGED <<server, input>>

\* analyzeSizes only reads; reorganize() then returns, lines 198-210
AnalyzeSizes ==
  /\ output.stage = "copied"
  /\ output' = [output EXCEPT !.stage = "returned", !.success = TRUE]
  /\ UNCHANGED <<server, input>>

\* the script is run once more over what the run left
RunAgain ==
  /\ output.stage = "returned"
  /\ output.previous = <<>>
  /\ output' = Reorganizer(output.fs, output.ioErrors,
                           <<[fs |-> output.fs, success |-> output.success]>>)
  /\ UNCHANGED <<server, input>>

ReorganizeNext ==
  \/ AnalyzeAndClassify
  \/ SeparateByLayers
  \/ GroupComponents
  \/ ExtractDesignTokens
  \/ ValidateAndCheck
  \/ CopyMissingData
  \/ AnalyzeSizes
  \/ RunAgain

ReorganizeSpec == ReorganizeInit /\ [][ReorganizeNext]_vars

\* ---- properties of the reorganizer ----
Elements(seq) == {seq[i] : i \in DOMAIN seq}
FileName(path) == path[Len(path)]

\* reorganize() has returned success = true
Succeeded == output.stage = "returned" /\ output.success

\* following parentId from the node with this id leads to the node `to`
RECURSIVE LeadsTo(_, _, _, _)
LeadsTo(nodes, id, to, steps) ==
  \/ id = to
  \/ /\ steps > 0
     /\ \E i \in DOMAIN nodes :
          /\ nodes[i].id = id
          /\ nodes[i].parentId # NoParent
          /\ LeadsTo(nodes, nodes[i].parentId, to, steps - 1)

RootsOf(id) ==
  {r \in Elements(output.rootFrames) :
     LeadsTo(output.nodes, id, r.id, Len(output.nodes))}

\* the identifiers a structure.json names: its root frame, its children and
\* the keys and entries of its hierarchy
StructureIds(structure) ==
  {structure.rootFrame.id}
    \cup {n.id : n \in Elements(structure.children)}
    \cup DOMAIN structure.hierarchy
    \cup UNION {Elements(structure.hierarchy[p]) : p \in DOMAIN structure.hierarchy}

\* the structure.json files of the layers, as they are on disk
StructureFiles ==
  {p \in DOMAIN output.fs.files :
     FileName(p) = "structure.json" /\ p \in Elements(output.log)}

LayersNaming(id) ==
  {p \in StructureFiles : id \in StructureIds(output.fs.files[p])}

\* C23: after a run that succeeded, every node identifier that is reached
\* from exactly one root frame through parentId is named in the
\* structure.json of exactly one layer.
C23_EveryIdInOneLayer ==
  Succeeded =>
    \A n \in Elements(output.nodes) :
      Cardinality(RootsOf(n.id)) = 1 => Cardinality(LayersNaming(n.id)) = 1

\* the files this run has created or written
WrittenFiles == Elements(output.log) \cap DOMAIN output.fs.files

\* C24: every file that was under export/ before the runs is still there
\* with the content it had, and every file a run has created or written
\* lies under export/reorganized.
C24_OnlyReorganizedWritten ==
  /\ \A p \in DOMAIN ExportTree(input).files :
        /\ p \in DOMAIN output.fs.files
        /\ output.fs.files[p] = ExportTree(input).files[p]
  /\ \A p \in WrittenFiles : IsPrefix(reorganizedPath, p)

\* the layer files, the grouped-component files and the design-token files
OutputFileNames ==
  Elements(LayerFiles)
    \cup {ComponentTypes[i] \o ".json" : i \in DOMAIN ComponentTypes}
    \cup {"colors.json", "typography.json", "spacing.json", "shadows.json"}
OutputFiles(fs) ==
  {p \in DOMAIN fs.files :
     FileName(p) \in OutputFileNames /\ ~IsPrefix(nodesPath, p)}

\* the run at hand is the second, and the first returned success = true
SecondOfTwo == output.previous # <<>> /\ output.previous[1].success

\* C25: when the first and the second run over the same artifacts have
\* both succeeded, the layer files, the grouped-component files and the
\* design-token files are the same files with the same content after the
\* second run as after the first.
C25_SecondRunSameFiles ==
  SecondOfTwo /\ Succeeded =>
    /\ OutputFiles(output.fs) = OutputFiles(output.previous[1].fs)
    /\ \A p \in OutputFiles(output.fs) :
          output.fs.files[p] = output.previous[1].fs.files[p]

\* a second run has succeeded over the folders of the first, having made
\* no folder and written a layer of two nodes, a group and the colours
C25_RewrittenInPlace ==
  /\ SecondOfTwo /\ Succeeded
  /\ output.statistics.createdFolders = 0
  /\ output.statistics.createdFiles > 0
  /\ \E p \in OutputFiles(output.fs) :
        /\ FileName(p) = "metadata.json"
        /\ output.fs.files[p].nodeCount > 1
  /\ \E p \in OutputFiles(output.fs) : FileName(p) = "buttons.json"
  /\ output.fs.files[pathJoin(tokensPath, <<"colors.json">>)] # <<>>

\* the first category, in the order button, card, input, navigation,
\* feedback, whose rule matches the node
Category(node) ==
  IF isButton(node) THEN "buttons"
  ELSE IF isCard(node) THEN "cards"
  ELSE IF isInput(node) THEN "inputs"
  ELSE IF isNavigation(node) THEN "navigation"
  ELSE IF isFeedback(node) THEN "feedback"
  ELSE "unclassified"

GroupFile(type) == pathJoin(componentsPath, <<type, type \o ".json">>)

\* the groups whose file on disk lists the node
GroupsHolding(node) ==
  {type \in Elements(ComponentTypes) :
     /\ GroupFile(type) \in DOMAIN output.fs.files
     /\ node \in Elements(output.fs.files[GroupFile(type)])}

\* C26: once the grouping stage has written its files, every node is in
\* the group of the first category whose rule matches it and in no other,
\* and a node no rule matches is in no group.
C26_OneCategoryPerNode ==
  output.stage = "components" =>
    \A n \in Elements(output.nodes) :
      GroupsHolding(n) =
        IF Category(n) = "unclassified" THEN {} ELSE {Category(n)}

\* the nodes from which following parentId leads to the root frame, the
\* root frame among them
Subtree(rootFrame) ==
  {n \in Elements(output.nodes) :
     LeadsTo(output.nodes, n.id, rootFrame.id, Len(output.nodes))}

LayerPath(rootFrame) == pathJoin(layersPath, layerFolderName(rootFrame))

\* C27: when the layering stage has run through, the node list of every
\* root frame holds the root frame and the nodes that lead to it through
\* parentId, each once and no other; the files written into the root
\* frame's folder are the five layer files; and five files were written
\* for each root frame.
C27_SubtreeAndFiveFiles ==
  output.stage = "layers" =>
    /\ \A r \in Elements(output.rootFrames) :
          LET layerNodes == getNodesForLayer(output.nodes, r.id)
          IN /\ Elements(layerNodes) = Subtree(r)
             /\ Len(layerNodes) = Cardinality(Subtree(r))
             /\ {p \in WrittenFiles : Parent(p) = LayerPath(r)}
                  = {pathJoin(LayerPath(r), <<f>>) : f \in Elements(LayerFiles)}
    /\ output.statistics.createdFiles = 5 * Len(output.rootFrames)

\* the layering stage has run through for two root frames, one of them with
\* a child and a grandchild
C27_LayerOfThree ==
  /\ output.stage = "layers"
  /\ Len(output.rootFrames) = 2
  /\ \E r \in Elements(output.rootFrames) :
        /\ Cardinality(Subtree(r)) = 3
        /\ output.fs.files[pathJoin(LayerPath(r), <<"metadata.json">>)].nodeCount = 3

\* the layering stage runs through in this step, with no root frame
LayeringWithoutRootFrames ==
  /\ output.stage = "analyzed"
  /\ output'.stage = "layers"
  /\ output.rootFrames = <<>>

\* what the step leaves: layers/ is there, nothing but layers/ was made, no
\* file was written, and createdFolders grew by `folders`
LayersOnly(folders) ==
  /\ layersPath \in output'.fs.dirs
  /\ output'.fs.dirs \subseteq output.fs.dirs \cup {layersPath}
  /\ output'.fs.files = output.fs.files
  /\ output'.statistics.createdFolders
       = output.statistics.createdFolders + folders
  /\ output'.statistics.createdFiles = output.statistics.createdFiles

\* C28 as stated: without a root frame the layering stage leaves layers/
\* and nothing else, and adds 1 to createdFolders and 0 to createdFiles.
C28_OneFolderCounted ==
  [][LayeringWithoutRootFrames => LayersOnly(1)]_vars

\* C28: without a root frame the layering stage leaves layers/ and nothing
\* else, and adds to createdFolders 1 when layers/ was not there before
\* and 0 when it was, and 0 to createdFiles.
C28_FolderCountedWhenMade ==
  [][LayeringWithoutRootFrames =>
       LayersOnly(IF layersPath \in output.fs.dirs THEN 0 ELSE 1)]_vars

\* a second run without a root frame has found layers/ and counted no
\* folder
C28_SecondRunCountsNone ==
  /\ output.stage = "layers"
  /\ output.rootFrames = <<>>
  /\ output.nodes # <<>>
  /\ output.previous # <<>>
  /\ output.statistics.createdFolders = 0
  /\ layerFolders(output.fs) = {}

\* the entries of the five groups in the components.json of the layer
\* folders on disk: one for each place a node has in a group of a layer
ClassifiedEntries(fs) ==
  {<<d, type, i>> \in layerFolders(fs) \X Elements(ComponentTypes)
       \X DOMAIN output.nodes :
     /\ pathJoin(d, <<"components.json">>) \in DOMAIN fs.files
     /\ i <= Len(fs.files[pathJoin(d, <<"components.json">>)][type])}

\* the validation stage in this step
Validated ==
  /\ output'.stage = "validated"
  /\ output'.statistics.dataLoss =
       output.statistics.originalNodes
         - Cardinality(ClassifiedEntries(output.fs))
  /\ output'.warnings =
       IF output'.statistics.dataLoss > 0
       THEN Append(output.warnings, output'.statistics.dataLoss)
       ELSE output.warnings
  /\ output'.errors = output.errors

\* a step of the run after the validation stage
CarriedToReturn ==
  /\ output'.statistics.dataLoss = output.statistics.dataLoss
  /\ output'.warnings = output.warnings
  /\ output'.stage \in {"copied", "returned"}
  /\ output'.stage = "returned" => output'.success

\* C29: the validation stage sets dataLoss to originalNodes less the
\* number of entries the classification left in the layers' groups, adds
\* the one warning when that is positive and no error, and goes on; from
\* there the run keeps dataLoss and the warnings and returns success = true.
C29_DataLossIsWarning ==
  [][(output.stage = "tokens" => Validated)
       /\ (output.stage \in {"validated", "copied"} => CarriedToReturn)]_vars

\* a run has returned success = true with a positive dataLoss, the one
\* warning for it, and nodes counted as saved
C29_ReturnedWithWarning ==
  /\ Succeeded
  /\ output.statistics.dataLoss > 0
  /\ output.statistics.savedNodes > 0
  /\ output.warnings = <<output.statistics.dataLoss>>

\* C30: a run in which a write or a mkdir in the output tree failed, each
\* of which leaves an entry in errors, returns success = false.
C30_FailedWriteFailsRun ==
  output.stage = "returned" /\ output.errors # <<>> => ~output.success

\* the nodes in the node dumps that are there
DumpedNodes ==
  (IF input.allNodesFile THEN input.allNodes ELSE <<>>) \o input.frames

\* C31: a run counts as original nodes the nodes of the node dumps that
\* are there, a missing dump adding none, and while the operating system
\* has refused no step every run returns success = true, whichever of the
\* node dumps, batches/, styles/, components/, images/ and metadata/ are
\* missing.
C31_AbsentAddsNothing ==
  /\ output.stage \notin {"start", "returned"} =>
        output.statistics.originalNodes = Len(DumpedNodes)
  /\ output.stage = "returned" /\ output.ioErrors = 0 => output.success

\* a run over a tree without node dumps and without metadata/ has returned
\* success = true with no node
C31_NothingToReorganize ==
  /\ Succeeded
  /\ ~input.allNodesFile /\ ~input.documentInfo
  /\ output.statistics.originalNodes = 0
  /\ output.statistics.createdFiles = 4

\* reorganize() returns in this step
Returns == output.stage # "returned" /\ output'.stage = "returned"

\* C39: the result reorganize() returns has success = true exactly when
\* its errors list is empty.
C39_SuccessIffNoErrors ==
  [][Returns => (output'.success <=> output'.errors = <<>>)]_vars


(***************************************************************************)
(* Stage 5, the transitions between the stages, and the end of a session.  *)
(***************************************************************************)
\* the callbacks of stage 5 that send its commands have all run
Stage5Sent ==
  /\ Connected
  /\ Entered("stage5")
  /\ Pending("getSelection") = 0
  /\ Pending("exportImages") = 0
  /\ Pending("exportImage") = 0

\* the commands of stage 5 that were sent: those awaiting their response and
\* those whose response was counted
Stage5Commands ==
  Outstanding(IdSelection) + Outstanding(IdImage) + stage5Completed

\* C32: stage 5 sends six commands, once each, and stage5Completed reaches
\* stage5Total exactly when the responses to all of them have arrived.
C32_SixCommandsSixResponses ==
  Stage5Sent =>
    /\ Stage5Commands = stage5Total
    /\ (stage5Completed >= stage5Total) <=>
         (Outstanding(IdSelection) + Outstanding(IdImage) = 0)

\* C33: in a session startStage5SpecializedExport runs at most once: when
\* it runs, stage 5 has not been entered since the join.
C33_Stage5StartedOnce ==
  [][(Runs("startStage5SpecializedExport") /\ obs.open) => ~Entered("stage5")]_vars

\* C34: in a session whose connection stays open finishExport runs at most
\* once.
C34_FinishedOnce == Connected => "finish" \notin obs.twice

\* C35: no node identifier is carried by more than one get_nodes_info
\* request of a session.
C35_RequestedOnce == Connected => NoDuplicates(Concat(obs.sentBatches))

(***************************************************************************)
(* Progress.  The plugin stays connected and answers every request; the    *)
(* event loop runs every timer that is due.                                *)
(***************************************************************************)
Answer == \E ws \in WS, id \in RequestIds : \E r \in ResultsFor(id) : Response(ws, id, r)

AnsweringNext ==
  \/ \E ws \in WS : Connect(ws)
  \/ \E ws \in WS : Join(ws)
  \/ Answer
  \/ Timers

\* Timers is enabled: a timer is due, or a second can pass
TimerReady ==
  /\ ~exited
  /\ timers # <<>>
  /\ (timers[1].rem = 0 \/ \A ws \in WS : wire[ws] = NoWire)

\* the step is a step of Timers
TimerRuns == timers' # timers /\ answered' = answered /\ joins' = joins /\ conn' = conn

\* The plugin answers what it is asked, and the event loop runs the timer
\* that is due: weak fairness of Answer and of Timers, the second written
\* out with the enabling condition of Timers.
AnsweringSpec ==
  /\ Init
  /\ [][AnsweringNext]_vars
  /\ WF_vars(Answer)
  /\ ([]<>(~TimerReady) \/ []<><<TimerRuns>>_vars)

\* the session holds a structure with at least one node identifier
StructureWithIds == obs.open /\ documentNodeIds # <<>>

\* a request stays without its answer
Unanswered ==
  answered >= MaxResponses /\ \E ws \in WS : wire[ws] # NoWire

\* finishExport has run and the reset that follows it has put the session
\* state back
Finalized == ~obs.open /\ Entered("finish") /\ ~isExporting

DelayedActionRuns ==
  Runs("processBatchesAndOrganizeData") \/ Runs("resetExportState")

\* C37: the delayed actions of finishExport that run during a session are
\* those of its own finishExport: a session that was joined while the timers
\* of the session before were pending is left alone by them.
C37_OwnTimersOnly ==
  [][(obs.open /\ DelayedActionRuns) => Entered("finish")]_vars

(***************************************************************************)
(* The rescan of stage 6, with a plugin whose batch answers are a node      *)
(* object that holds requested nodes and nothing else.                     *)
(***************************************************************************)
EchoBatch == Node("0:1", <<Leaf("1:2")>>)

RescanResults(id) == IF id = IdNodes THEN {EchoBatch} ELSE ResultsFor(id)

RescanNext ==
  \/ \E ws \in WS : Connect(ws)
  \/ \E ws \in WS : Join(ws)
  \/ \E ws \in WS, id \in RequestIds : \E r \in RescanResults(id) : Response(ws, id, r)
  \/ Timers

RescanSpec == Init /\ [][RescanNext]_vars

\* the batch files hold no identifier that was not requested before
NothingNew == Range(batchFileIds(files.batches)) \subseteq Dispatched

\* the step calls finishExport and sends or queues nothing
FinishesDirectly ==
  /\ Pending("resetExportState")' = Pending("resetExportState") + 1
  /\ Pending("stage6Batch")' = Pending("stage6Batch")
  /\ nodeQueue' = nodeQueue
  /\ obs'.sentBatches = obs.sentBatches

\* C38: in a session the rescan of stage 6 runs at most once, and a rescan
\* that finds no identifier that was not requested before sends no request
\* and goes directly to finishExport.
C38_RescanOnceAndDirect ==
  [][(Runs("startStage6RecursiveDeepening") /\ Connected) =>
       /\ ~Entered("stage6")
       /\ NothingNew => FinishesDirectly]_vars

(***************************************************************************)
(* FigmaExporter, the client that exports on its own.  Its state is the    *)
(* record output; input is the document the plugin holds.                  *)
(***************************************************************************)
configBatchSize == 5

DocumentId == "0:0"
PageId == "0:1"
FrameIds == {"1:1", "1:2"}
ExportIds == {DocumentId, PageId} \cup FrameIds

\* a node as the plugin returns it: children are listed by id
ExportNode(id, type, ch) ==
  [t |-> "obj", id |-> id, name |-> id, type |-> type, children |-> ch]
\* a result that is no node: image data, a list
ExportData == [t |-> "obj"]
NoResult == [t |-> "undef"]

\* the key of a result that has no id
NoId == "undefined"
Key(node) == IF Has(node, "id") THEN node.id ELSE NoId

\* the documents: a page with up to two nodes of one type
Documents4 ==
  [frames : {<<>>, <<"1:1">>, <<"1:1", "1:2">>}, type : {"FRAME", "SLICE"}]

NodeOf(doc, id) ==
  IF id = DocumentId THEN ExportNode(id, "DOCUMENT", <<PageId>>)
  ELSE IF id = PageId THEN ExportNode(id, "PAGE", doc.frames)
  ELSE ExportNode(id, doc.type, <<>>)

\* the requests the exporter sends
ExportRequests ==
  {<<"get_document_info">>, <<"get_all_pages">>}
    \cup {<<"get_node_info", id>> : id \in ExportIds}
    \cup {<<"export_node_image", id>> : id \in ExportIds}

\* the results the plugin can give to a request; NoResult is an answer with
\* an error, or with neither result nor error
ExportResults(doc, request) ==
  IF request[1] = "get_document_info" THEN {NodeOf(doc, DocumentId)}
  ELSE IF request[1] = "get_all_pages" THEN {NodeOf(doc, DocumentId), ExportData}
  ELSE IF request[1] = "get_node_info" THEN {NodeOf(doc, request[2])}
  ELSE {ExportData, NoResult}

\* this.ws.send: what is sent on a closed socket goes nowhere
wsSend(o, request) ==
  IF o.isConnected THEN [o EXCEPT !.requests[request] = @ + 1] ELSE o

imageTypes ==
  {"RECTANGLE", "ELLIPSE", "POLYGON", "STAR", "VECTOR", "TEXT", "FRAME", "GROUP",
   "COMPONENT", "INSTANCE"}

shouldExportImage(node) == node.type \in imageTypes

exportNodeImage(o, node) == wsSend(o, <<"export_node_image", node.id>>)

\* sanitizeFileName(node.name) throws on a result without name; the catch of
\* saveNodeToFile logs it and nothing is written or requested.
saveNodeToFile(o, node) ==
  IF ~Has(node, "name") THEN o
  ELSE LET o1 == [o EXCEPT !.files = @ \cup {node.id}]
       IN IF shouldExportImage(node) THEN exportNodeImage(o1, node) ELSE o1

\* Map.set keeps the place of a key that is present
cacheSet(cache, node) ==
  IF \E i \in DOMAIN cache : Key(cache[i]) = Key(node)
  THEN [i \in DOMAIN cache |-> IF Key(cache[i]) = Key(node) THEN node ELSE cache[i]]
  ELSE Append(cache, node)

\* generateExportReport: sanitizeFileName throws on a cached result without
\* name, before the report is written
reportThrows(o) == \E i \in DOMAIN o.nodeCache : ~Has(o.nodeCache[i], "name")

generateExportReport(o) ==
  IF reportThrows(o) THEN [o EXCEPT !.crashed = TRUE]
  ELSE [o EXCEPT !.reportCount = @ + 1,
                 !.report = [totalNodes |-> Cardinality(o.processedNodes),
                             files |-> [i \in DOMAIN o.nodeCache |-> o.nodeCache[i].id]]]

requestNodeInfo(o, nodeId) == wsSend(o, <<"get_node_info", nodeId>>)

RECURSIVE requestBatch(_, _)
\* batch.forEach(nodeId => if (!processedNodes.has(nodeId)) requestNodeInfo(nodeId))
requestBatch(o, batch) ==
  IF batch = <<>> THEN o
  ELSE requestBatch(IF Head(batch) \in o.processedNodes THEN o
                    ELSE requestNodeInfo(o, Head(batch)),
                    Tail(batch))

processQueue(o) ==
  IF o.exportQueue = <<>> THEN generateExportReport(o)
  ELSE LET n == Min(configBatchSize, Len(o.exportQueue))
       IN requestBatch([o EXCEPT !.exportQueue = SubSeq(@, n + 1, Len(@))],
                       SubSeq(o.exportQueue, 1, n))

processNodeResponse(o, node) ==
  LET o1 == [o EXCEPT !.nodeCache = cacheSet(@, node),
                      !.processedNodes = @ \cup {Key(node)}]
      o2 == saveNodeToFile(o1, node)
      children == IF Has(node, "children") THEN node.children ELSE <<>>
      queued == SelectSeq(children, LAMBDA id : id \notin o2.processedNodes)
  IN [o2 EXCEPT !.exportQueue = @ \o queued, !.timers = @ + 1]

\* createExportStructure, getDocumentInfo, getAllPages and processQueue run
\* before any other event is handled: the two requests await nothing.
startExport(o) ==
  processQueue(wsSend(wsSend([o EXCEPT !.started = TRUE], <<"get_document_info">>),
                      <<"get_all_pages">>))

Exporter ==
  [isConnected |-> FALSE, joined |-> FALSE, started |-> FALSE,
   exportQueue |-> <<>>, processedNodes |-> {}, nodeCache |-> <<>>,
   requests |-> [r \in ExportRequests |-> 0], timers |-> 0, files |-> {},
   reportCount |-> 0, report |-> [totalNodes |-> 0, files |-> <<>>],
   crashed |-> FALSE]

ExporterInit ==
  /\ Idle
  /\ input \in Documents4
  /\ output = Exporter

\* ws.on('open'): joinChannel sends the join
OnOpen ==
  /\ ~output.isConnected /\ ~output.joined
  /\ output' = [output EXCEPT !.isConnected = TRUE, !.joined = TRUE]
  /\ UNCHANGED <<server, input>>

\* handleMessage with the join-response, which the relay sends once
OnJoinResponse ==
  /\ output.isConnected /\ ~output.started /\ ~output.crashed
  /\ output' = startExport(output)
  /\ UNCHANGED <<server, input>>

\* handleMessage with the answer to a request
OnMessage ==
  /\ output.isConnected /\ ~output.crashed
  /\ \E request \in ExportRequests :
       /\ output.requests[request] > 0
       /\ \E result \in ExportResults(input, request) :
            LET o == [output EXCEPT !.requests[request] = @ - 1]
            IN output' = IF Truthy(result) THEN processNodeResponse(o, result) ELSE o
  /\ UNCHANGED <<server, input>>

\* the callback of setTimeout(() => this.processQueue(), 100); an exception
\* that leaves it ends the process
ProcessQueue ==
  /\ output.timers > 0 /\ ~output.crashed
  /\ output' = processQueue([output EXCEPT !.timers = @ - 1])
  /\ UNCHANGED <<server, input>>

\* ws.on('close'): the plugin answers no more
OnClose ==
  /\ output.isConnected /\ ~output.crashed
  /\ output' = [output EXCEPT !.isConnected = FALSE,
                              !.requests = [r \in ExportRequests |-> 0]]
  /\ UNCHANGED <<server, input>>

ExporterNext == OnOpen \/ OnJoinResponse \/ OnMessage \/ ProcessQueue \/ OnClose

ExporterSpec == ExporterInit /\ [][ExporterNext]_vars

\* the step writes the export report
Reported == output'.reportCount = output.reportCount + 1

\* a get_node_info request has no answer yet
NodeInfoUnanswered(o) ==
  \E id \in ExportIds : o.requests[<<"get_node_info", id>>] > 0

\* C40: the export report is written once in an export, when the queue is
\* empty and no get_node_info request is unanswered, and it lists every
\* processed node.
C40_OneReportAtTheEnd ==
  [][Reported =>
       /\ output.reportCount = 0
       /\ output'.exportQueue = <<>>
       /\ ~NodeInfoUnanswered(output')
       /\ output'.processedNodes \subseteq Range(output'.report.files)]_vars

====
